---- MODULE Spec2Model ----
(***************************************************************************)
(* Cross-camera identity correlation (VesselMCMOT / MCMOT) and the event   *)
(* lifecycle (EventService) of the vessel repository.                      *)
(*                                                                         *)
(* Python dicts are functions whose DOMAIN is the set of keys present.     *)
(* Python None is the value None below.  Embeddings are one-dimensional    *)
(* integer vectors and the index distance is the squared L2 distance, as   *)
(* faiss.IndexFlatL2 reports it.  vessel_trajectory is written on every    *)
(* detection and read nowhere (the reader is commented out); it is left    *)
(* out of the state.                                                       *)
(***************************************************************************)
EXTENDS Integers, Sequences, FiniteSets, TLC

\* ---------------------------------------------------------------- bounds
MaxDets == 1
MaxObjects == 3
MaxGlobalId == 1
MaxEvents == 2
StartClock == 20
MaxElapsed == 10
MaxFrames == 2
MaxPoints == 3

\* capture threads one RTSPService starts at most
MaxLoops == 2

\* ------------------------------------------------------------- constants
None == -1

CAMERA_1_ID == "camera1"
CAMERA_2_ID == "camera2"
CAMERA_3_ID == "camera3"
CAMERA_4_ID == "camera4"
Cameras == {CAMERA_1_ID, CAMERA_2_ID, CAMERA_3_ID, CAMERA_4_ID}

\* areas are counted in units of 5000 pixels and distances are integers, so
\* the base class's literals 10000 and 0.7 are 2 and 1 (d < 0.7 iff d < 1)
VESSEL_SIZE_THRESHOLD == 2
GALLERY_MATCH_THRESHOLD == 2
MCMOT_AREA_THRESHOLD == 2
MCMOT_MATCH_THRESHOLD == 1

\* EventService.tracking_interval, in seconds
tracking_interval == 10

\* the camera whose check completes events
TERMINAL_CAMERA == "camera4"

\* the integer 4 the base class compares camera ids with; camera ids are
\* only compared for equality and 4 equals none of the string ids
INT_4 == "4"

object_types == {"vessel", "truck"}

size_threshold == VESSEL_SIZE_THRESHOLD

\* the inputs a detector can hand over: local track ids, bounding-box areas
\* below, at and above the threshold, and two embeddings farther apart than
\* the match threshold
LocalIds == {1, 2}
Areas == {1, 2, 3}
Features == {0, 2}

\* the dimension the indexes are created with (512 in the code; embeddings
\* are one-dimensional here), and the embeddings that have one component more
index_dim == 1
WrongDimFeatures == {10}
dimension(feature) == IF feature \in WrongDimFeatures THEN index_dim + 1 ELSE index_dim

\* detections whose embedding may have the wrong dimension, on two cameras
DimCameras == {"camera1", "camera2"}
DimDetections ==
    [class_name : {"vessel"}, local_id : LocalIds, feature : {0} \cup WrongDimFeatures,
     area : {1, 2, 3}]

\* detections of the one class the detector emits, with areas below and at
\* the threshold
VesselDetections ==
    [class_name : {"vessel"}, local_id : LocalIds, feature : Features, area : {1, 2}]

\* detections of two classes with areas below, at and above the threshold
\* (the second class with a single track and embedding)
TypedDetections ==
    [class_name : {"vessel"}, local_id : LocalIds, feature : Features, area : Areas]
    \cup [class_name : {"truck"}, local_id : {1}, feature : {0}, area : {2, 3}]

\* the cameras that deliver frames in the two-class specification
TypedCameras == {"camera1", "camera2"}

\* what the base class is fed: frames of cameras identified by strings and
\* by the integer 4, with areas at and above its area threshold
BaseCameras == {"camera1", "camera4", INT_4}
BaseDetections ==
    [class_name : {"vessel"}, local_id : LocalIds, feature : Features, area : {2, 3}]

\* what EventService is handed: the global ids the counter issues (from its
\* first value 0) or none, two cameras, one geocoded position per camera
\* (their sums divide evenly by every camera count), and the steps the clock
\* advances by
GlobalIds == 0..MaxGlobalId
EventCameras == {"camera1", "camera4"}
PositionsSeenBy(camera_id) ==
    IF camera_id = "camera1"
    THEN {[latitude |-> 0, longitude |-> 24]}
    ELSE {[latitude |-> 12, longitude |-> 0]}
ChannelTypes == {"interior_channel"}
TickSteps == {5, 10}

\* the frames of at most MaxDets detections drawn from D
FramesOf(D) == UNION {[1..n -> D] : n \in 0..MaxDets}

\* camera_query_scope, as a list per camera (iteration order matters to
\* the "last predecessor wins" loop of match_with_gallery)
\* (mutation: the scope the comments describe, every earlier camera)
camera_query_scope_all ==
    [c \in Cameras |->
        CASE c = CAMERA_1_ID -> <<>>
          [] c = CAMERA_2_ID -> <<CAMERA_1_ID>>
          [] c = CAMERA_3_ID -> <<CAMERA_2_ID, CAMERA_1_ID>>
          [] c = CAMERA_4_ID -> <<CAMERA_3_ID, CAMERA_2_ID, CAMERA_1_ID>>]

camera_query_scope ==
    [c \in Cameras |->
        CASE c = CAMERA_1_ID -> <<>>
          [] c = CAMERA_2_ID -> <<CAMERA_1_ID>>
          [] c = CAMERA_3_ID -> <<CAMERA_2_ID>>
          [] c = CAMERA_4_ID -> <<CAMERA_3_ID>>]

\* ------------------------------------------------------- dict primitives
Range(f) == {f[x] : x \in DOMAIN f}

EmptyDict == <<>>

\* d[k] = v
Put(d, k, v) == [x \in (DOMAIN d) \cup {k} |-> IF x = k THEN v ELSE d[x]]

\* d.get(k, default)
Get(d, k, default) == IF k \in DOMAIN d THEN d[k] ELSE default

\* list(d.keys()) for a dict whose integer keys were inserted in increasing
\* order (global ids are inserted in counter order and deletion keeps order)
RECURSIVE SortedKeys(_)
SortedKeys(S) ==
    IF S = {} THEN <<>>
    ELSE LET m == CHOOSE x \in S : \A y \in S : x <= y
         IN <<m>> \o SortedKeys(S \ {m})

\* ----------------------------------------------------------------- state
VARIABLES
    kind,                \* the class the resolver object was constructed from
    gallery,             \* {obj_type: {global_id: {"camera_features": {cam: feature}}}}
    local_to_global_id,  \* {obj_type: {cameraId: {local_id: global_id}}}
    global_id_counter,   \* {obj_type: int}
    faiss_indexes,       \* {obj_type: sequence of added vectors}
    max_size_record,     \* {global_id: {cameraId: area}}
    processed,           \* history: number of detections handled since construction
    outcome,             \* history: the branch each detection of the last frame took
    allocated,           \* history: ids handed out by register_object_in_gallery, per type
    best_seen,           \* history: largest-area sighting per (type, global_id, cam)
    dropped,             \* history: the (type, cam, local_id) of cameras without
                         \* predecessors that were resolved to none so far
    active_events,       \* EventService: {global_id: {vessel, event, camera_positions}}
    last_track_time,     \* EventService: {global_id: time.time() of the last sample}
    vessel_objects,      \* the Vessel records created, in order
    event_objects,       \* the VesselEvent records created, in order
    clock,               \* the wall clock, read by time.time() and by the caller
    last_call,           \* history: the last EventService call and its arguments
    cycle_sightings,     \* history: ids the terminal camera sighted since its last check
    threads,             \* per thread inside process_camera_frame: the line it is at
                         \* and its local variables
    halted,              \* the frame loop of the caller was ended by an exception
    cameras,             \* StreamManagerService.cameras: per camera id the RTSPService's
                         \* frame (the number of the captured frame, or None) and
                         \* last_frame_time
    stream_manager,      \* StreamManagerService: last_sync_time and frame_queue
    grid,                \* a camera's GridLocationService: gcps, transformer,
                         \* inverse_transformer, reference_points,
                         \* direction_vector, scale_factor
    geo_call,            \* history: the last GridLocationService call and its outcome
    rtsp,                \* one RTSPService with its capture threads: is_running,
                         \* process, last_frame_time, connection_retry_count, the
                         \* ffmpeg processes alive, each thread's position in
                         \* _stream_capture and its owner's position
    sync_log             \* history: the last get_synchronized_frames call (whether
                         \* the interval had passed, what it returned, the cameras
                         \* that had captured since the previous frame set) and the
                         \* cameras that captured since the last frame set

resolver_vars == <<kind, gallery, local_to_global_id, global_id_counter, faiss_indexes,
                   max_size_record, processed, outcome, allocated, best_seen, dropped>>

event_vars == <<active_events, last_track_time, vessel_objects, event_objects, clock,
                last_call, cycle_sightings>>

stream_vars == <<cameras, stream_manager, sync_log>>

geo_vars == <<grid, geo_call>>

rtsp_vars == <<rtsp>>

vars == <<resolver_vars, event_vars, threads, halted, stream_vars, geo_vars, rtsp_vars>>

\* the resolver's fields gathered in one record, threaded through the methods
Self ==
    [gallery |-> gallery,
     local_to_global_id |-> local_to_global_id,
     global_id_counter |-> global_id_counter,
     faiss_indexes |-> faiss_indexes,
     max_size_record |-> max_size_record,
     detected_objects |-> <<>>,
     raised |-> FALSE,
     allocated |-> allocated,
     best_seen |-> best_seen,
     dropped |-> dropped]

\* MCMOT.__init__: the fields every resolver starts with
MCMOT_init ==
    /\ gallery = [t \in object_types |-> EmptyDict]
    /\ local_to_global_id = [t \in object_types |-> EmptyDict]
    /\ global_id_counter = [t \in object_types |-> 0]
    /\ faiss_indexes = [t \in object_types |-> <<>>]
    /\ max_size_record = EmptyDict
    /\ processed = 0
    /\ outcome = <<>>
    /\ allocated = [t \in object_types |-> <<>>]
    /\ best_seen = EmptyDict
    /\ dropped = {}

\* EventService.__init__, with no record created yet
EventService_init ==
    /\ active_events = EmptyDict
    /\ last_track_time = EmptyDict
    /\ vessel_objects = <<>>
    /\ event_objects = <<>>
    /\ clock = StartClock
    /\ last_call = [op |-> "__init__", global_id |-> None, camera_id |-> "None",
                    raised |-> FALSE]
    /\ cycle_sightings = {}

\* the threads that may call the resolver, none of them inside a call yet
Threads == {"thread1", "thread2"}

NoCall == [pc |-> "idle", cameraId |-> "None", obj |-> <<>>, global_id |-> None]

\* the cameras initialize_cameras connected
StreamCameras == {"camera1", "camera2"}

\* StreamManagerService.sync_interval is 0.033 s and Queue(maxsize=30); the
\* clock is read in whole seconds, so the interval has passed iff the
\* readings differ by at least 1
sync_interval == 1
frame_queue_maxsize == 30

\* RTSPService.__init__ per connected camera and StreamManagerService.__init__
StreamManagerService_init ==
    /\ cameras = [c \in StreamCameras |-> [frame |-> None, last_frame_time |-> StartClock]]
    /\ stream_manager = [last_sync_time |-> StartClock, frame_queue |-> <<>>]
    /\ sync_log = [called |-> FALSE, due |-> FALSE, returned |-> EmptyDict,
                   fresh_before |-> {}, fresh |-> {}]

\* a field of the GridLocationService that holds None is the empty sequence,
\* one that holds a value v is <<v>>
Unset == <<>>

\* GridLocationService.__init__, before _initialize_from_config adds the
\* configured points one by one
GridLocationService_init ==
    /\ grid = [gcps |-> <<>>, transformer |-> Unset, inverse_transformer |-> Unset,
               reference_points |-> <<>>, direction_vector |-> Unset,
               scale_factor |-> Unset]
    /\ geo_call = [op |-> "none", raised |-> FALSE, result |-> <<>>]

\* RTSPService fields
max_retries == 3
frame_timeout == 3

\* the capture threads of one RTSPService, in the order they are started
Loops == 1..MaxLoops

\* RTSPService.__init__; no thread is started and the owner has not called
\* connect() yet. Processes are numbered in the order they are spawned and
\* process 0 is None
RTSPService_init ==
    rtsp = [is_running |-> FALSE,
            process |-> 0,
            alive |-> {},
            spawned |-> 0,
            frame |-> None,
            last_frame_time |-> StartClock,
            connection_retry_count |-> 0,
            loops |-> [th \in Loops |-> "unstarted"],
            owner |-> "new",
            started_after_disconnect |-> FALSE]

Threads_init ==
    /\ threads = [th \in Threads |-> NoCall]
    /\ halted = FALSE
    /\ StreamManagerService_init
    /\ GridLocationService_init
    /\ RTSPService_init

\* a VesselMCMOT is constructed: MCMOT.__init__, then the override's fields
Init ==
    /\ kind = "VesselMCMOT"
    /\ MCMOT_init
    /\ EventService_init
    /\ Threads_init

\* a resolver of either class is constructed
InitAny ==
    /\ kind \in {"MCMOT", "VesselMCMOT"}
    /\ MCMOT_init
    /\ EventService_init
    /\ Threads_init

\* ------------------------------------------------------ nearest neighbour
\* squared L2 distance of two embeddings
L2(a, b) == (a - b) * (a - b)

\* faiss index.search(query, 1): the positions (0-based) of the vectors of
\* the index nearest to the query; the library picks one of them
search(index, query) ==
    {i \in 0..(Len(index) - 1) :
        \A j \in 0..(Len(index) - 1) : L2(index[i + 1], query) <= L2(index[j + 1], query)}

\* ------------------------------------------------------------ VesselMCMOT
\* the feature the predecessor loop ends with: the last camera of
\* valid_cameras present in camera_features, None when there is none
RECURSIVE best_feature(_, _)
best_feature(camera_features, valid_cameras) ==
    IF valid_cameras = <<>> THEN None
    ELSE LET cam == valid_cameras[Len(valid_cameras)]
         IN IF cam \in DOMAIN camera_features
            THEN camera_features[cam]
            ELSE best_feature(camera_features, SubSeq(valid_cameras, 1, Len(valid_cameras) - 1))

\* gallery ids (in dict order) of the entries holding a feature of a camera
\* in valid_cameras
filtered_gallery(s, obj_type, valid_cameras) ==
    {gid \in DOMAIN s.gallery[obj_type] :
        \E k \in 1..Len(valid_cameras) :
            valid_cameras[k] \in DOMAIN s.gallery[obj_type][gid].camera_features}

\* (mutation: every gallery entry is a candidate, whatever camera saw it)
match_with_gallery_unscoped(s, obj_type, query_feature, cameraId, obj_area) ==
    IF obj_area < size_threshold \/ DOMAIN s.gallery[obj_type] = {}
    THEN {[kind |-> "none", id |-> None]}
    ELSE
    LET gallery_ids == SortedKeys(DOMAIN s.gallery[obj_type])
        index == s.faiss_indexes[obj_type]
    IN {IF i >= Len(gallery_ids)
        THEN [kind |-> "raise", id |-> None]
        ELSE IF L2(index[i + 1], query_feature) < GALLERY_MATCH_THRESHOLD
             THEN [kind |-> "id", id |-> gallery_ids[i + 1]]
             ELSE [kind |-> "none", id |-> None]
        : i \in search(index, query_feature)}

\* match_with_gallery: the set of possible results, each
\* [kind |-> "none"], [kind |-> "id", id |-> g] or [kind |-> "raise"]
match_with_gallery(s, obj_type, query_feature, cameraId, obj_area) ==
    IF obj_area < size_threshold THEN {[kind |-> "none", id |-> None]}
    ELSE
    LET valid_cameras == Get(camera_query_scope, cameraId, <<>>)
        filtered == filtered_gallery(s, obj_type, valid_cameras)
        gallery_ids == SortedKeys(
            {gid \in filtered :
                best_feature(s.gallery[obj_type][gid].camera_features, valid_cameras) # None})
        index == s.faiss_indexes[obj_type]
        gallery_features == {best_feature(s.gallery[obj_type][gid].camera_features,
                                          valid_cameras) : gid \in Range(gallery_ids)}
    IN IF filtered = {} \/ gallery_ids = <<>> THEN {[kind |-> "none", id |-> None]}
       \* np.array(gallery_features).astype("float32") of vectors of unequal length
       ELSE IF \E f1, f2 \in gallery_features : dimension(f1) # dimension(f2)
       THEN {[kind |-> "raise", id |-> None]}
       \* search asserts that the query has the dimension of the index
       ELSE IF dimension(query_feature) # index_dim
       THEN {[kind |-> "raise", id |-> None]}
       \* an empty index answers position -1 at the largest distance:
       \* gallery_ids[-1] exists and the distance is above the threshold
       ELSE IF index = <<>> THEN {[kind |-> "none", id |-> None]}
       ELSE {IF i >= Len(gallery_ids)
             THEN [kind |-> "raise", id |-> None]
             ELSE IF L2(index[i + 1], query_feature) < GALLERY_MATCH_THRESHOLD
                  THEN [kind |-> "id", id |-> gallery_ids[i + 1]]
                  ELSE [kind |-> "none", id |-> None]
             : i \in search(index, query_feature)}

\* (mutation: the counter is read but not advanced)
register_object_in_gallery_same(s, cameraId, obj_type, feature_vector, area) ==
    LET global_id == s.global_id_counter[obj_type]
    IN [s EXCEPT
          !.gallery[obj_type] =
              Put(@, global_id, [camera_features |-> Put(EmptyDict, cameraId, feature_vector)]),
          !.faiss_indexes[obj_type] = Append(@, feature_vector),
          !.max_size_record = Put(@, global_id, Put(EmptyDict, cameraId, area)),
          !.allocated[obj_type] = Append(@, global_id)]

\* register_object_in_gallery: the new state; the returned id is the old
\* counter.  index.add asserts the dimension of the vector, after the
\* counter and the gallery were written.
register_object_in_gallery(s, cameraId, obj_type, feature_vector, area) ==
    LET global_id == s.global_id_counter[obj_type]
    IN IF dimension(feature_vector) # index_dim
       THEN [s EXCEPT
          !.global_id_counter[obj_type] = global_id + 1,
          !.gallery[obj_type] =
              Put(@, global_id, [camera_features |-> Put(EmptyDict, cameraId, feature_vector)]),
          !.raised = TRUE]
       ELSE [s EXCEPT
          !.global_id_counter[obj_type] = global_id + 1,
          !.gallery[obj_type] =
              Put(@, global_id, [camera_features |-> Put(EmptyDict, cameraId, feature_vector)]),
          !.faiss_indexes[obj_type] = Append(@, feature_vector),
          !.max_size_record = Put(@, global_id, Put(EmptyDict, cameraId, area)),
          !.allocated[obj_type] = Append(@, global_id)]

\* (mutation: an equal area replaces the embedding too)
update_gallery_feature_geq(s, cameraId, obj_type, global_id, new_feature, new_area) ==
    LET target_max_size_record == Get(s.max_size_record, global_id, EmptyDict)
        max_area_per_camera == Get(target_max_size_record, cameraId, 0)
    IN IF new_area >= max_area_per_camera
       THEN [s EXCEPT
               !.max_size_record =
                   IF global_id \in DOMAIN @
                   THEN Put(@, global_id, Put(target_max_size_record, cameraId, new_area))
                   ELSE @,
               !.gallery[obj_type][global_id].camera_features = Put(@, cameraId, new_feature)]
       ELSE s

\* update_gallery_feature
update_gallery_feature(s, cameraId, obj_type, global_id, new_feature, new_area) ==
    LET target_max_size_record == Get(s.max_size_record, global_id, EmptyDict)
        max_area_per_camera == Get(target_max_size_record, cameraId, 0)
    IN IF new_area > max_area_per_camera
       THEN [s EXCEPT
               !.max_size_record =
                   IF global_id \in DOMAIN @
                   THEN Put(@, global_id, Put(target_max_size_record, cameraId, new_area))
                   ELSE @,
               !.gallery[obj_type][global_id].camera_features = Put(@, cameraId, new_feature)]
       ELSE s

\* update_info: the detection as annotated and left in detected_objects
\* (feature and branch are kept for the record of what was submitted)
update_info(s, camera_id, global_id, object, branch) ==
    [s EXCEPT !.detected_objects =
        Append(@, [class_name |-> object.class_name, local_id |-> object.local_id,
                   area |-> object.area, feature |-> object.feature,
                   camera_id |-> camera_id, global_id |-> global_id,
                   branch |-> branch])]

\* history of the largest-area sighting of (obj_type, global_id, cameraId)
note_sighting(s, cameraId, obj_type, global_id, feature, area) ==
    LET key == <<obj_type, global_id, cameraId>>
    IN IF key \notin DOMAIN s.best_seen \/ area > s.best_seen[key].area
       THEN [s EXCEPT !.best_seen = Put(@, key, [area |-> area, feature |-> feature])]
       ELSE s

\* history of the local tracks, seen by a camera that queries no other
\* camera, that were resolved to none
note_dropped(s, cameraId, obj) ==
    IF cameraId \in DOMAIN camera_query_scope /\ camera_query_scope[cameraId] = <<>>
    THEN [s EXCEPT !.dropped = @ \cup {<<obj.class_name, cameraId, obj.local_id>>}]
    ELSE s

\* (mutation: the lookup is made with the neighbouring local id)
has_binding_shifted(s, obj_type, cameraId, local_id) ==
    /\ cameraId \in DOMAIN s.local_to_global_id[obj_type]
    /\ (local_id + 1) \in DOMAIN s.local_to_global_id[obj_type][cameraId]

\* cameraId in self.local_to_global_id[obj_type] and local_id in ...[cameraId]
has_binding(s, obj_type, cameraId, local_id) ==
    /\ cameraId \in DOMAIN s.local_to_global_id[obj_type]
    /\ local_id \in DOMAIN s.local_to_global_id[obj_type][cameraId]

\* the keys (obj_type, cameraId, local_id) that have a binding
Bindings(s) ==
    {k \in object_types \X Cameras \X LocalIds : has_binding(s, k[1], k[2], k[3])}

\* (mutation: the binding is not recorded)
bind_skipped(s, obj_type, cameraId, local_id, global_id) == s

\* self.local_to_global_id[obj_type].setdefault(cameraId, {})[local_id] = global_id
bind(s, obj_type, cameraId, local_id, global_id) ==
    [s EXCEPT !.local_to_global_id[obj_type] =
        Put(@, cameraId, Put(Get(@, cameraId, EmptyDict), local_id, global_id))]

\* (mutation: an object exactly at the threshold is not registered)
may_register_above(obj_area) == obj_area > size_threshold

\* obj_area >= self.size_threshold, the registration guard
may_register(obj_area) == obj_area >= size_threshold

\* the tail of the loop body once global_id is known (lines 162-168)
finish_object(s, cameraId, obj, global_id, branch) ==
    update_info(
        note_sighting(
            update_gallery_feature(s, cameraId, obj.class_name, global_id, obj.feature, obj.area),
            cameraId, obj.class_name, global_id, obj.feature, obj.area),
        cameraId, global_id, obj, branch)

\* one iteration of the loop of process_camera_frame: the possible states after it
process_object(s, cameraId, obj) ==
    LET obj_type == obj.class_name
        local_id == obj.local_id
    IN \* self.local_to_global_id[obj_type] of a class that is no key: KeyError
       IF obj_type \notin DOMAIN s.local_to_global_id
       THEN {[s EXCEPT !.raised = TRUE]}
       ELSE IF has_binding(s, obj_type, cameraId, local_id)
       THEN {finish_object(s, cameraId, obj,
                           s.local_to_global_id[obj_type][cameraId][local_id], "bound")}
       ELSE {CASE m.kind = "raise" -> [s EXCEPT !.raised = TRUE]
               [] m.kind = "id" ->
                    finish_object(bind(s, obj_type, cameraId, local_id, m.id),
                                  cameraId, obj, m.id, "matched")
               [] OTHER ->
                    IF may_register(obj.area)
                    THEN LET global_id == s.global_id_counter[obj_type]
                             registered == register_object_in_gallery(
                                               s, cameraId, obj_type, obj.feature, obj.area)
                         IN IF registered.raised THEN registered
                            ELSE finish_object(
                                    bind(registered, obj_type, cameraId, local_id, global_id),
                                    cameraId, obj, global_id, "registered")
                    ELSE update_info(note_dropped(s, cameraId, obj),
                                     cameraId, None, obj, "small")
             : m \in match_with_gallery(s, obj_type, obj.feature, cameraId, obj.area)}

\* the loop of process_camera_frame over the detections of the frame; an
\* exception ends it
RECURSIVE process_objects(_, _, _)
process_objects(s, cameraId, objs) ==
    IF objs = <<>> \/ s.raised THEN {s}
    ELSE UNION {process_objects(s2, cameraId, Tail(objs)) :
                    s2 \in process_object(s, cameraId, Head(objs))}

\* the branch of each annotated detection, then "raise" if the
\* frame ended in an exception
Outcome(s) ==
    [i \in 1..Len(s.detected_objects) |->
        s.detected_objects[i].branch]
    \o (IF s.raised THEN <<"raise">> ELSE <<>>)

InstallFields(s) ==
    /\ UNCHANGED <<event_vars, threads, stream_vars, geo_vars, rtsp_vars>>
    /\ kind' = kind
    /\ gallery' = s.gallery
    /\ local_to_global_id' = s.local_to_global_id
    /\ global_id_counter' = s.global_id_counter
    /\ faiss_indexes' = s.faiss_indexes
    /\ max_size_record' = s.max_size_record
    /\ outcome' = Outcome(s)
    /\ allocated' = s.allocated
    /\ best_seen' = s.best_seen
    /\ dropped' = s.dropped

Install(s) ==
    /\ InstallFields(s)
    /\ UNCHANGED halted

process_camera_frame_sweeping(cameraId, objs) ==
    /\ kind = "VesselMCMOT"
    /\ processed + Len(objs) <= MaxObjects
    /\ processed' = processed + Len(objs)
    /\ \E s \in process_objects(Self, cameraId, objs) :
          Install(IF s.raised \/ cameraId # CAMERA_4_ID THEN s
                  ELSE [s EXCEPT !.gallery =
                          [t \in object_types |->
                              [g \in {h \in DOMAIN s.gallery[t] :
                                         h \in Range(Get(s.local_to_global_id[t],
                                                         cameraId, EmptyDict))}
                                  |-> s.gallery[t][g]]]])

\* VesselMCMOT.process_camera_frame on a frame in which detect_objects
\* finds objs
process_camera_frame(cameraId, objs) ==
    /\ kind = "VesselMCMOT"
    /\ processed + Len(objs) <= MaxObjects
    /\ processed' = processed + Len(objs)
    /\ \E s \in process_objects(Self, cameraId, objs) : Install(s)

\* --------------------------------------------------------- the frame loop
\* test_synchronized_frames: the cameras of a frame set are gone through in
\* the order of the dict, each frame is handed to process_camera_frame, and
\* an exception leaves the loop for good
CycleCameras == <<"camera1", "camera2">>

\* what the detector may find in a frame: a vessel, or an object whose class
\* name is not among object_types
CycleDetections ==
    [class_name : {"vessel", "buoy"}, local_id : LocalIds, feature : {0}, area : {1, 2}]

\* the frame sets: for some of the cameras, what is detected in its frame
FrameSets ==
    UNION {[cams -> FramesOf(CycleDetections)] : cams \in SUBSET Range(CycleCameras)}

\* the loop over frames.items(), from the k-th camera on
RECURSIVE process_frames(_, _, _)
process_frames(s, frames, k) ==
    IF k > Len(CycleCameras) \/ s.raised THEN {s}
    ELSE IF CycleCameras[k] \notin DOMAIN frames THEN process_frames(s, frames, k + 1)
    ELSE UNION {process_frames(s2, frames, k + 1) :
                    s2 \in process_objects(s, CycleCameras[k], frames[CycleCameras[k]])}

\* the number of detections in a frame set
RECURSIVE Detections(_, _)
Detections(frames, k) ==
    IF k > Len(CycleCameras) THEN 0
    ELSE (IF CycleCameras[k] \in DOMAIN frames THEN Len(frames[CycleCameras[k]]) ELSE 0)
         + Detections(frames, k + 1)

\* one round of the while loop of test_synchronized_frames on a frame set
synchronized_cycle(frames) ==
    /\ kind = "VesselMCMOT"
    /\ ~halted
    /\ processed + Detections(frames, 1) <= MaxObjects
    /\ processed' = processed + Detections(frames, 1)
    /\ \E s \in process_frames(Self, frames, 1) :
          /\ InstallFields(s)
          /\ halted' = s.raised

\* ------------------------------------------- process_camera_frame, by line
\* Calls of process_camera_frame made from several threads: the interpreter
\* may switch threads between any two statements, so each thread advances
\* one statement (or one callee that only reads) at a time.  Every call is
\* for a frame with one detection.
ThreadCameras == {"camera1", "camera2"}
ThreadDetections ==
    [class_name : {"vessel"}, local_id : {1}, feature : Features, area : {1, 2}]

\* the resolver's fields after a statement, and the thread's new position
Advance(s, th, call) ==
    /\ gallery' = s.gallery
    /\ local_to_global_id' = s.local_to_global_id
    /\ global_id_counter' = s.global_id_counter
    /\ faiss_indexes' = s.faiss_indexes
    /\ max_size_record' = s.max_size_record
    /\ allocated' = s.allocated
    /\ threads' = [threads EXCEPT ![th] = call]
    /\ UNCHANGED <<kind, processed, outcome, best_seen, dropped, event_vars, halted,
                   stream_vars, geo_vars, rtsp_vars>>

\* line 130: the call is entered and detect_objects returns the detection
thread_enter(th, cameraId, obj) ==
    /\ kind = "VesselMCMOT"
    /\ threads[th].pc = "idle"
    /\ Advance(Self, th, [pc |-> "l147", cameraId |-> cameraId, obj |-> obj,
                          global_id |-> None])

\* lines 147-148: the binding is looked up
thread_lookup(th) ==
    LET call == threads[th]
        obj_type == call.obj.class_name
    IN /\ call.pc = "l147"
       /\ IF has_binding(Self, obj_type, call.cameraId, call.obj.local_id)
          THEN Advance(Self, th,
                  [call EXCEPT !.pc = "l163",
                               !.global_id = local_to_global_id[obj_type][call.cameraId]
                                                               [call.obj.local_id]])
          ELSE Advance(Self, th, [call EXCEPT !.pc = "l150"])

\* lines 150-158: match_with_gallery reads the gallery and the index; a
\* small unmatched object is annotated and the call is over
thread_match(th) ==
    LET call == threads[th]
    IN /\ call.pc = "l150"
       /\ \E m \in match_with_gallery(Self, call.obj.class_name, call.obj.feature,
                                       call.cameraId, call.obj.area) :
             Advance(Self, th,
                 CASE m.kind = "raise" -> [call EXCEPT !.pc = "raised"]
                   [] m.kind = "id" -> [call EXCEPT !.pc = "l160", !.global_id = m.id]
                   [] OTHER -> IF may_register(call.obj.area)
                               THEN [call EXCEPT !.pc = "l100"]
                               ELSE [call EXCEPT !.pc = "done"])

\* line 100: global_id = self.global_id_counter[obj_type]
thread_read_counter(th) ==
    LET call == threads[th]
        obj_type == call.obj.class_name
    IN /\ call.pc = "l100"
       /\ Advance([Self EXCEPT !.allocated[obj_type] =
                                 Append(@, global_id_counter[obj_type])],
                  th, [call EXCEPT !.pc = "l101",
                                   !.global_id = global_id_counter[obj_type]])

\* line 101: self.global_id_counter[obj_type] += 1
thread_advance_counter(th) ==
    LET call == threads[th]
    IN /\ call.pc = "l101"
       /\ Advance([Self EXCEPT !.global_id_counter[call.obj.class_name] = @ + 1],
                  th, [call EXCEPT !.pc = "l103"])

\* lines 103-108: the gallery entry, the index vector and the area record
\* are written
thread_store(th) ==
    LET call == threads[th]
        obj_type == call.obj.class_name
    IN /\ call.pc = "l103"
       /\ Advance([Self EXCEPT
                      !.gallery[obj_type] =
                          Put(@, call.global_id,
                              [camera_features |->
                                  Put(EmptyDict, call.cameraId, call.obj.feature)]),
                      !.faiss_indexes[obj_type] = Append(@, call.obj.feature),
                      !.max_size_record =
                          Put(@, call.global_id,
                              Put(EmptyDict, call.cameraId, call.obj.area))],
                  th, [call EXCEPT !.pc = "l160"])

\* line 160: the binding is written
thread_bind(th) ==
    LET call == threads[th]
    IN /\ call.pc = "l160"
       /\ Advance(bind(Self, call.obj.class_name, call.cameraId, call.obj.local_id,
                       call.global_id),
                  th, [call EXCEPT !.pc = "l163"])

\* lines 163-181: update_gallery_feature, update_info, return
thread_update(th) ==
    LET call == threads[th]
    IN /\ call.pc = "l163"
       /\ Advance(update_gallery_feature(Self, call.cameraId, call.obj.class_name,
                                         call.global_id, call.obj.feature, call.obj.area),
                  th, [call EXCEPT !.pc = "done"])

\* ------------------------------------------------------------------ MCMOT
\* MCMOT.match_with_gallery: the set of possible results
MCMOT_match_with_gallery(s, obj_type, query_feature) ==
    IF DOMAIN s.gallery[obj_type] = {} THEN {[kind |-> "none", id |-> None]}
    ELSE
    LET keys == SortedKeys(DOMAIN s.gallery[obj_type])
        index == s.faiss_indexes[obj_type]
    IN {IF i >= Len(keys)
        THEN [kind |-> "raise", id |-> None]
        ELSE IF L2(index[i + 1], query_feature) < MCMOT_MATCH_THRESHOLD
             THEN [kind |-> "id", id |-> keys[i + 1]]
             ELSE [kind |-> "none", id |-> None]
        : i \in search(index, query_feature)}

\* (mutation: the counter is read but not advanced)
MCMOT_register_object_in_gallery_same(s, obj_type, feature_vector) ==
    LET global_id == s.global_id_counter[obj_type]
    IN [s EXCEPT
          !.gallery[obj_type] = Put(@, global_id, feature_vector),
          !.faiss_indexes[obj_type] = Append(@, feature_vector),
          !.allocated[obj_type] = Append(@, global_id)]

\* MCMOT.register_object_in_gallery: the new state; the returned id is the
\* old counter
MCMOT_register_object_in_gallery(s, obj_type, feature_vector) ==
    LET global_id == s.global_id_counter[obj_type]
    IN [s EXCEPT
          !.global_id_counter[obj_type] = global_id + 1,
          !.gallery[obj_type] = Put(@, global_id, feature_vector),
          !.faiss_indexes[obj_type] = Append(@, feature_vector),
          !.allocated[obj_type] = Append(@, global_id)]

\* one iteration of the loop of MCMOT.process_camera_frame
MCMOT_process_object(s, cameraId, obj) ==
    LET obj_type == obj.class_name
        local_id == obj.local_id
    IN IF obj_type \notin DOMAIN s.local_to_global_id
       THEN {[s EXCEPT !.raised = TRUE]}
       ELSE IF has_binding(s, obj_type, cameraId, local_id)
       THEN {update_info(s, cameraId, s.local_to_global_id[obj_type][cameraId][local_id],
                         obj, "bound")}
       ELSE IF obj.area > MCMOT_AREA_THRESHOLD
       THEN {CASE m.kind = "raise" -> [s EXCEPT !.raised = TRUE]
               [] m.kind = "id" ->
                    update_info(bind(s, obj_type, cameraId, local_id, m.id),
                                cameraId, m.id, obj, "matched")
               [] OTHER ->
                    LET global_id == s.global_id_counter[obj_type]
                    IN update_info(
                           bind(MCMOT_register_object_in_gallery(s, obj_type, obj.feature),
                                obj_type, cameraId, local_id, global_id),
                           cameraId, global_id, obj, "registered")
             : m \in MCMOT_match_with_gallery(s, obj_type, obj.feature)}
       ELSE {update_info(s, cameraId, None, obj, "small")}

RECURSIVE MCMOT_process_objects(_, _, _)
MCMOT_process_objects(s, cameraId, objs) ==
    IF objs = <<>> \/ s.raised THEN {s}
    ELSE UNION {MCMOT_process_objects(s2, cameraId, Tail(objs)) :
                    s2 \in MCMOT_process_object(s, cameraId, Head(objs))}

MCMOT_sweep_unbinding(s, cameraId) ==
    IF cameraId = INT_4
    THEN LET kept(t) == {g \in DOMAIN s.gallery[t] :
                            g \in Range(Get(s.local_to_global_id[t], cameraId, EmptyDict))}
         IN [s EXCEPT
               !.gallery = [t \in object_types |-> [g \in kept(t) |-> s.gallery[t][g]]],
               !.local_to_global_id =
                   [t \in object_types |->
                       [c \in DOMAIN s.local_to_global_id[t] |->
                           [l \in {k \in DOMAIN s.local_to_global_id[t][c] :
                                      s.local_to_global_id[t][c][k] \in kept(t)}
                               |-> s.local_to_global_id[t][c][l]]]]]
    ELSE s

\* the clean-up after the loop: on camera 4 every gallery id that no local
\* track of that camera is bound to is deleted
MCMOT_sweep(s, cameraId) ==
    IF cameraId = INT_4
    THEN [s EXCEPT !.gallery =
            [t \in object_types |->
                LET kept == {g \in DOMAIN s.gallery[t] :
                                g \in Range(Get(s.local_to_global_id[t], cameraId, EmptyDict))}
                IN [g \in kept |-> s.gallery[t][g]]]]
    ELSE s

\* MCMOT.process_camera_frame on a frame in which detect_objects finds objs
MCMOT_process_camera_frame(cameraId, objs) ==
    /\ kind = "MCMOT"
    /\ processed + Len(objs) <= MaxObjects
    /\ processed' = processed + Len(objs)
    /\ \E s \in MCMOT_process_objects(Self, cameraId, objs) :
          Install(IF s.raised THEN s ELSE MCMOT_sweep(s, cameraId))

\* ----------------------------------------------------------- EventService
\* the service's fields and the records it created, threaded through its
\* methods
Service ==
    [active_events |-> active_events,
     last_track_time |-> last_track_time,
     vessel_objects |-> vessel_objects,
     event_objects |-> event_objects,
     raised |-> FALSE]

\* which save() of the models fails with a database error during a call
SaveFailures == {"none", "vessel.save", "event.save"}

\* (mutation: only 0 is taken for a missing id)
falsy_zero(global_id) == global_id = 0

\* not global_id: none and 0 are both falsy
falsy(global_id) == global_id = None \/ global_id = 0

_create_new_event_untracked(e, global_id, camera_id, current_time, coordinates, save_fails) ==
    [e EXCEPT
       !.vessel_objects = Append(@, [first_seen |-> current_time,
                                     last_seen |-> current_time]),
       !.event_objects = Append(@, [global_id |-> global_id,
                                    vessel |-> Len(e.vessel_objects) + 1,
                                    start_time |-> current_time,
                                    end_time |-> None,
                                    tracking_points |-> <<>>]),
       !.active_events = Put(@, global_id,
           [vessel |-> Len(e.vessel_objects) + 1,
            event |-> Len(e.event_objects) + 1,
            camera_positions |-> Put(EmptyDict, camera_id, coordinates)])]

\* _create_new_event: a Vessel and a VesselEvent with one tracking point are
\* created and the event becomes active; timestamps are kept as clock
\* readings (isoformat renders them one to one). objects.create() saves the
\* new record, and an exception of that save ends the method where it is
\* raised
_create_new_event(e, global_id, camera_id, current_time, coordinates, save_fails) ==
    LET vessel == [first_seen |-> current_time, last_seen |-> current_time]
        event == [global_id |-> global_id,
                  vessel |-> Len(e.vessel_objects) + 1,
                  start_time |-> current_time,
                  end_time |-> None,
                  tracking_points |->
                      <<[timestamp |-> current_time,
                         longitude |-> coordinates.longitude,
                         latitude |-> coordinates.latitude,
                         channel_type |-> "None"]>>]
    IN IF save_fails = "vessel.save" THEN [e EXCEPT !.raised = TRUE]
       ELSE IF save_fails = "event.save"
       THEN [e EXCEPT !.vessel_objects = Append(@, vessel), !.raised = TRUE]
       ELSE [e EXCEPT
               !.vessel_objects = Append(@, vessel),
               !.event_objects = Append(@, event),
               !.active_events = Put(@, global_id,
                   [vessel |-> Len(e.vessel_objects) + 1,
                    event |-> Len(e.event_objects) + 1,
                    camera_positions |-> Put(EmptyDict, camera_id, coordinates)])]

RECURSIVE Sum(_, _)
Sum(f, S) ==
    IF S = {} THEN 0
    ELSE LET x == CHOOSE y \in S : TRUE IN f[x] + Sum(f, S \ {x})

\* _calculate_average_position over the values of camera_positions (the
\* sums divide evenly, see PositionsSeenBy)
_calculate_average_position(camera_positions) ==
    LET cams == DOMAIN camera_positions
        n == Cardinality(cams)
    IN [latitude |-> Sum([c \in cams |-> camera_positions[c].latitude], cams) \div n,
        longitude |-> Sum([c \in cams |-> camera_positions[c].longitude], cams) \div n]

\* _should_record_tracking_point: whether tracking_interval has passed since
\* the recorded sample time (0 when there is none)
_should_record_tracking_point(e, global_id, now) ==
    now - Get(e.last_track_time, global_id, 0) >= tracking_interval

\* _update_event; an exception of save() ends the method where it is raised
_update_event_stale(e, global_id, camera_id, current_time, coordinates, channel_type, now, save_fails) ==
    LET event_data == e.active_events[global_id]
        avg_position == _calculate_average_position(event_data.camera_positions)
        e1 == [e EXCEPT
                 !.active_events[global_id].camera_positions =
                     Put(@, camera_id, coordinates),
                 !.vessel_objects[event_data.vessel].last_seen = current_time]
        e2 == [e1 EXCEPT
                 !.last_track_time = Put(@, global_id, now),
                 !.event_objects[event_data.event].tracking_points =
                     Append(@, [timestamp |-> current_time,
                                longitude |-> avg_position.longitude,
                                latitude |-> avg_position.latitude,
                                channel_type |-> channel_type])]
    IN IF save_fails = "vessel.save" THEN [e1 EXCEPT !.raised = TRUE]
       ELSE IF _should_record_tracking_point(e, global_id, now)
       THEN (IF save_fails = "event.save" THEN [e2 EXCEPT !.raised = TRUE] ELSE e2)
       ELSE e1

_update_event(e, global_id, camera_id, current_time, coordinates, channel_type, now, save_fails) ==
    LET event_data == e.active_events[global_id]
        camera_positions == Put(event_data.camera_positions, camera_id, coordinates)
        avg_position == _calculate_average_position(camera_positions)
        e1 == [e EXCEPT
                 !.active_events[global_id].camera_positions = camera_positions,
                 !.vessel_objects[event_data.vessel].last_seen = current_time]
        e2 == [e1 EXCEPT
                 !.last_track_time = Put(@, global_id, now),
                 !.event_objects[event_data.event].tracking_points =
                     Append(@, [timestamp |-> current_time,
                                longitude |-> avg_position.longitude,
                                latitude |-> avg_position.latitude,
                                channel_type |-> channel_type])]
    IN IF save_fails = "vessel.save" THEN [e1 EXCEPT !.raised = TRUE]
       ELSE IF _should_record_tracking_point(e, global_id, now)
       THEN (IF save_fails = "event.save" THEN [e2 EXCEPT !.raised = TRUE] ELSE e2)
       ELSE e1

\* del d[k]
Del(d, k) == [x \in (DOMAIN d) \ {k} |-> d[x]]

\* (mutation: the entry is dropped before the event is saved)
_complete_event_early(e, global_id, current_time, save_fails) ==
    [e EXCEPT
       !.event_objects[e.active_events[global_id].event].end_time = current_time,
       !.active_events = Del(@, global_id),
       !.last_track_time = Del(@, global_id),
       !.raised = (save_fails = "event.save")]

\* _complete_event; an exception of save() ends the method where it is raised
_complete_event(e, global_id, current_time, save_fails) ==
    IF save_fails = "event.save"
    THEN [e EXCEPT
            !.event_objects[e.active_events[global_id].event].end_time = current_time,
            !.raised = TRUE]
    ELSE [e EXCEPT
            !.event_objects[e.active_events[global_id].event].end_time = current_time,
            !.active_events = Del(@, global_id),
            !.last_track_time = Del(@, global_id)]

\* the loop of check_event_completion over list(active_events.keys()): the
\* keys come in the order of insertion, which is the order in which their
\* events were created; an exception ends the loop
RECURSIVE complete_all(_, _, _, _)
complete_all(e, ids, current_time, save_fails) ==
    IF ids = {} \/ e.raised THEN e
    ELSE LET global_id == CHOOSE g \in ids :
                 \A h \in ids : e.active_events[g].event <= e.active_events[h].event
             e1 == IF TERMINAL_CAMERA \in DOMAIN e.active_events[global_id].camera_positions
                   THEN _complete_event(e, global_id, current_time, save_fails)
                   ELSE e
         IN complete_all(e1, ids \ {global_id}, current_time, save_fails)

InstallService(e) ==
    /\ active_events' = e.active_events
    /\ last_track_time' = e.last_track_time
    /\ vessel_objects' = e.vessel_objects
    /\ event_objects' = e.event_objects
    /\ UNCHANGED <<clock, resolver_vars, threads, halted, stream_vars, geo_vars,
                   rtsp_vars>>

\* the body of process_detection: the service after it
process_detection_body(e, global_id, camera_id, current_time, coordinates, channel_type, now, save_fails) ==
    IF falsy(global_id) THEN e
    ELSE IF global_id \notin DOMAIN e.active_events
    THEN _create_new_event(e, global_id, camera_id, current_time, coordinates,
                           save_fails)
    ELSE _update_event(e, global_id, camera_id, current_time, coordinates,
                       channel_type, now, save_fails)

\* EventService.process_detection, called with the clock's reading
process_detection(global_id, camera_id, coordinates, channel_type, save_fails) ==
    /\ (global_id \notin DOMAIN active_events /\ ~falsy(global_id))
          => (Len(event_objects) < MaxEvents /\ Len(vessel_objects) < MaxEvents)
    /\ LET e == process_detection_body(Service, global_id, camera_id, clock, coordinates,
                                       channel_type, clock, save_fails)
       IN /\ InstallService(e)
          /\ last_call' = [op |-> "process_detection", global_id |-> global_id,
                           camera_id |-> camera_id, raised |-> e.raised]
    /\ cycle_sightings' = IF camera_id = TERMINAL_CAMERA /\ global_id # None
                          THEN cycle_sightings \cup {global_id}
                          ELSE cycle_sightings

\* (mutation: every active event is completed, sighted by camera4 or not)
check_event_completion_body_all(e, camera_id, current_time, save_fails) ==
    IF camera_id # "camera4" THEN e
    ELSE complete_all([e EXCEPT !.active_events =
                          [g \in DOMAIN @ |->
                              [@[g] EXCEPT !.camera_positions =
                                  Put(@, "camera4", [latitude |-> 0, longitude |-> 0])]]],
                      DOMAIN e.active_events, current_time, save_fails)

\* the body of check_event_completion: the service after it
check_event_completion_body(e, camera_id, current_time, save_fails) ==
    IF camera_id # "camera4" THEN e
    ELSE complete_all(e, DOMAIN e.active_events, current_time, save_fails)

\* EventService.check_event_completion, called with the clock's reading
check_event_completion(camera_id, save_fails) ==
    /\ LET e == check_event_completion_body(Service, camera_id, clock, save_fails)
       IN /\ InstallService(e)
          /\ last_call' = [op |-> "check_event_completion", global_id |-> None,
                           camera_id |-> camera_id, raised |-> e.raised]
    /\ cycle_sightings' = IF camera_id = TERMINAL_CAMERA THEN {} ELSE cycle_sightings

\* ---------------------------------------------------------------- streams
\* RTSPService._stream_capture, one round of the loop in which a whole frame
\* was read: the frame and its time are stored under the lock
_stream_capture(camera_id) ==
    LET n == IF cameras[camera_id].frame = None THEN 0 ELSE cameras[camera_id].frame
    IN /\ n < MaxFrames
       /\ cameras' = [cameras EXCEPT ![camera_id] =
                         [frame |-> n + 1, last_frame_time |-> clock]]
       /\ sync_log' = [sync_log EXCEPT !.fresh = @ \cup {camera_id}]
       /\ UNCHANGED <<resolver_vars, event_vars, threads, halted, stream_manager,
                      geo_vars, rtsp_vars>>

\* the capture threads that are inside _stream_capture
RunningLoops(r) == {th \in Loops : r.loops[th] \notin {"unstarted", "done"}}

\* RTSPService.connect: the service after it; Popen may raise, which connect
\* catches (it then returns False); otherwise the new process is stored,
\* is_running is set and a new thread is started on _stream_capture
connect_body(r, popen_fails) ==
    IF popen_fails THEN r
    ELSE LET th == CHOOSE t \in Loops :
                      /\ r.loops[t] = "unstarted"
                      /\ \A u \in Loops : r.loops[u] = "unstarted" => t <= u
         IN [r EXCEPT
               !.process = r.spawned + 1,
               !.spawned = r.spawned + 1,
               !.alive = @ \cup {r.spawned + 1},
               !.is_running = TRUE,
               !.loops[th] = "while",
               !.started_after_disconnect = @ \/ r.owner = "disconnected"]

\* a thread can be started still
CanStart(r) == \E th \in Loops : r.loops[th] = "unstarted"

InstallRtsp(r) ==
    /\ rtsp' = r
    /\ UNCHANGED <<resolver_vars, event_vars, threads, halted, stream_vars, geo_vars>>

\* RTSPService.connect, called by the owner of the service
connect(popen_fails) ==
    /\ rtsp.owner = "new"
    /\ popen_fails \/ CanStart(rtsp)
    /\ InstallRtsp([connect_body(rtsp, popen_fails) EXCEPT
                       !.owner = IF popen_fails THEN "failed" ELSE "connected"])

\* _stream_capture, the test of the while loop
loop_test(th) ==
    /\ rtsp.loops[th] = "while"
    /\ InstallRtsp([rtsp EXCEPT !.loops[th] = IF rtsp.is_running THEN "read" ELSE "done"])

\* _stream_capture, one read of the process's output: a whole frame, which
\* is stored under the lock with the time, or nothing (the stream has ended
\* or stalled; a terminated process gives nothing), which is handed to
\* _handle_stream_error
loop_read(th, whole_frame) ==
    /\ rtsp.loops[th] = "read"
    /\ whole_frame => rtsp.process \in rtsp.alive
    /\ InstallRtsp(IF whole_frame
                   THEN [rtsp EXCEPT !.frame = th, !.last_frame_time = clock,
                                     !.loops[th] = "while"]
                   ELSE [rtsp EXCEPT !.loops[th] = "error"])

\* _handle_stream_error: a reconnect when no frame came for frame_timeout
_handle_stream_error(th) ==
    /\ rtsp.loops[th] = "error"
    /\ InstallRtsp([rtsp EXCEPT !.loops[th] =
                       IF clock - rtsp.last_frame_time > frame_timeout
                       THEN "reconnect" ELSE "while"])

\* _reconnect up to process.wait(): the current process is terminated when
\* retries are left
_reconnect(th) ==
    /\ rtsp.loops[th] = "reconnect"
    /\ InstallRtsp(IF rtsp.connection_retry_count < max_retries
                   THEN [rtsp EXCEPT !.alive = @ \ {rtsp.process},
                                     !.loops[th] = "connect"]
                   ELSE [rtsp EXCEPT !.loops[th] = "while"])

\* _reconnect from self.connect() on; the calling loop goes on afterwards
_reconnect_connect(th, popen_fails) ==
    /\ rtsp.loops[th] = "connect"
    /\ popen_fails \/ CanStart(rtsp)
    /\ LET r == connect_body(rtsp, popen_fails)
       IN InstallRtsp([r EXCEPT
                         !.connection_retry_count = IF popen_fails THEN @ + 1 ELSE 0,
                         !.loops[th] = "while"])

\* RTSPService.disconnect, its first statement
disconnect_stop ==
    /\ rtsp.owner = "connected"
    /\ InstallRtsp([rtsp EXCEPT !.is_running = FALSE, !.owner = "stopping"])

\* RTSPService.disconnect, the termination of the process, and the return
disconnect_terminate ==
    /\ rtsp.owner = "stopping"
    /\ InstallRtsp([rtsp EXCEPT !.alive = @ \ {rtsp.process},
                                !.owner = "disconnected"])

\* RTSPService.get_frame: a copy of the stored frame, or None
get_frame(camera_id) == cameras[camera_id].frame

\* StreamManagerService.get_synchronized_frames, called at the clock's reading
get_synchronized_frames ==
    LET current_time == clock
        due == current_time - stream_manager.last_sync_time >= sync_interval
        frames == [c \in {c \in StreamCameras : get_frame(c) # None} |-> get_frame(c)]
        returns_frames == due /\ frames # EmptyDict
    IN /\ stream_manager' =
             IF returns_frames
             THEN [last_sync_time |-> current_time,
                   frame_queue |->
                       IF Len(stream_manager.frame_queue) < frame_queue_maxsize
                       THEN Append(stream_manager.frame_queue, frames)
                       ELSE stream_manager.frame_queue]
             ELSE stream_manager
       /\ sync_log' = [called |-> TRUE, due |-> due,
                       returned |-> IF returns_frames THEN frames ELSE EmptyDict,
                       fresh_before |-> sync_log.fresh,
                       fresh |-> IF returns_frames THEN {} ELSE sync_log.fresh]
       /\ UNCHANGED <<resolver_vars, event_vars, threads, halted, cameras, geo_vars,
                      rtsp_vars>>

\* ------------------------------------------------------------ geo reference
\* the control points a camera configuration may name: point_id, pixel_coord
\* (x, y) and geo_coord (lat, lon), on a small grid; "p1" and "p3" occur with
\* two different coordinates, "p4" does not lie on the plane of the others
ControlPoints ==
    { [point_id |-> "p1", pixel_coord |-> <<0, 0>>, geo_coord |-> <<0, 0>>],
      [point_id |-> "p1", pixel_coord |-> <<1, 0>>, geo_coord |-> <<0, 2>>],
      [point_id |-> "p2", pixel_coord |-> <<2, 0>>, geo_coord |-> <<0, 4>>],
      [point_id |-> "p3", pixel_coord |-> <<0, 2>>, geo_coord |-> <<4, 0>>],
      [point_id |-> "p3", pixel_coord |-> <<0, 1>>, geo_coord |-> <<1, 0>>],
      [point_id |-> "p4", pixel_coord |-> <<2, 2>>, geo_coord |-> <<5, 4>>] }

\* the pixels and the whole-numbered geo coordinates the transforms are asked for
Pixels == {<<x, y>> : x \in 0..1, y \in 0..2}
GeoCoords == {<<lat, lon>> : lat \in 0..1, lon \in 0..1}

\* a float as the exact fraction <<numerator, denominator>> in lowest terms
RECURSIVE GCD(_, _)
GCD(a, b) == IF b = 0 THEN a ELSE GCD(b, a % b)

Abs(x) == IF x < 0 THEN -x ELSE x

Fraction(n, d) ==
    LET g == GCD(Abs(n), Abs(d))
        sgn == IF d < 0 THEN -1 ELSE 1
    IN <<(sgn * n) \div g, (sgn * d) \div g>>

\* math.floor of a fraction
floor(q) == q[1] \div q[2]

Det3(m) ==
      m[1][1] * (m[2][2] * m[3][3] - m[2][3] * m[3][2])
    - m[1][2] * (m[2][1] * m[3][3] - m[2][3] * m[3][1])
    + m[1][3] * (m[2][1] * m[3][2] - m[2][2] * m[3][1])

\* rasterio's GroundControlPoint as add_reference_point builds it (z is 0)
GroundControlPoint(point_id, pixel_coord, geo_coord) ==
    [row |-> pixel_coord[2], col |-> pixel_coord[1],
     x |-> geo_coord[2], y |-> geo_coord[1], id |-> point_id]

\* the normal equations of the least-squares plane through the control
\* points: the matrix over (1, col, row) and its determinant
NormalMatrix(gcps) ==
    LET idx == 1..Len(gcps)
        S(f) == Sum(f, idx)
        c == [i \in idx |-> gcps[i].col]
        r == [i \in idx |-> gcps[i].row]
    IN << <<Len(gcps), S(c), S(r)>>,
          <<S(c), S([i \in idx |-> c[i] * c[i]]), S([i \in idx |-> c[i] * r[i]])>>,
          <<S(r), S([i \in idx |-> c[i] * r[i]]), S([i \in idx |-> r[i] * r[i]])>> >>

\* the six coefficients over their common denominator, in lowest terms with
\* a positive denominator (the denominator is not 0)
Reduced(t) ==
    LET g == GCD(GCD(GCD(Abs(t.a), Abs(t.b)), GCD(Abs(t.c), Abs(t.d))),
                 GCD(GCD(Abs(t.e), Abs(t.f)), Abs(t.den)))
        k == IF t.den < 0 THEN -g ELSE g
    IN [den |-> t.den \div k, a |-> t.a \div k, b |-> t.b \div k, c |-> t.c \div k,
        d |-> t.d \div k, e |-> t.e \div k, f |-> t.f \div k]

\* rasterio.transform.from_gcps: the affine transform fitted to the control
\* points, x = (a*col + b*row + c)/den and y = (d*col + e*row + f)/den, by
\* Cramer's rule on the normal equations (exact through three points)
from_gcps(gcps) ==
    LET idx == 1..Len(gcps)
        S(f) == Sum(f, idx)
        m == NormalMatrix(gcps)
        rhs(g) == <<S(g), S([i \in idx |-> gcps[i].col * g[i]]),
                    S([i \in idx |-> gcps[i].row * g[i]])>>
        coef(g, k) ==
            Det3([i \in 1..3 |-> [j \in 1..3 |-> IF j = k THEN rhs(g)[i] ELSE m[i][j]]])
        xs == [i \in idx |-> gcps[i].x]
        ys == [i \in idx |-> gcps[i].y]
    IN Reduced([den |-> Det3(m),
                a |-> coef(xs, 2), b |-> coef(xs, 3), c |-> coef(xs, 1),
                d |-> coef(ys, 2), e |-> coef(ys, 3), f |-> coef(ys, 1)])

\* affine.Affine.__invert__ (~transform) of a transform that is not degenerate
Invert(t) ==
    Reduced([den |-> t.a * t.e - t.b * t.d,
             a |-> t.den * t.e, b |-> -(t.den * t.b), c |-> t.b * t.f - t.e * t.c,
             d |-> -(t.den * t.d), e |-> t.den * t.a, f |-> t.d * t.c - t.a * t.f])

\* affine.Affine.__mul__ on a point given as two fractions
Apply(t, px, py) ==
    << Fraction(t.a * px[1] * py[2] + t.b * py[1] * px[2] + t.c * px[2] * py[2],
                t.den * px[2] * py[2]),
       Fraction(t.d * px[1] * py[2] + t.e * py[1] * px[2] + t.f * px[2] * py[2],
                t.den * px[2] * py[2]) >>

\* AffineTransformer(t).xy(row, col): the transform of the pixel's centre
\* (offset='center' adds one half to col and row); returns (x, y)
xy(t, row, col) == Apply(t, <<2 * col + 1, 2>>, <<2 * row + 1, 2>>)

\* AffineTransformer(t).rowcol(x, y): the INVERSE of the transformer's own
\* transform applied to (x, y), then math.floor; returns (row, col)
rowcol(t, x, y) ==
    LET p == Apply(Invert(t), x, y)
    IN <<floor(p[2]), floor(p[1])>>

\* the calibrations the fit is defined for: from three control points on,
\* pixels that are not all on one line and a transform that can be inverted
fit_defined(gcps) ==
    Len(gcps) >= 3 =>
        /\ Det3(NormalMatrix(gcps)) # 0
        /\ LET t == from_gcps(gcps) IN t.a * t.e - t.b * t.d # 0

_update_transformers_forward_only(g) ==
    [g EXCEPT !.transformer = <<from_gcps(g.gcps)>>]

\* _update_transformers
_update_transformers(g) ==
    LET transform == from_gcps(g.gcps)
    IN [g EXCEPT !.transformer = <<transform>>,
                 !.inverse_transformer = <<Invert(transform)>>]

\* haversine_distance, kept as the term of its four arguments
haversine_distance(lat1, lon1, lat2, lon2) ==
    [lat1 |-> lat1, lon1 |-> lon1, lat2 |-> lat2, lon2 |-> lon2]

\* calculate_reference_line over the first two values of reference_points;
\* the square root is kept as its argument: direction_vector is (dx, dy)
\* over sqrt(pixel_distance2), scale_factor is real_distance over it
calculate_reference_line(g) ==
    LET p1 == g.reference_points[1]
        p2 == g.reference_points[2]
        dx_pixel == p2.pixel_coord[1] - p1.pixel_coord[1]
        dy_pixel == p2.pixel_coord[2] - p1.pixel_coord[2]
        pixel_distance2 == dx_pixel * dx_pixel + dy_pixel * dy_pixel
        real_distance == haversine_distance(p1.geo_coord[1], p1.geo_coord[2],
                                            p2.geo_coord[1], p2.geo_coord[2])
    IN [g EXCEPT
          !.direction_vector = <<[dx |-> dx_pixel, dy |-> dy_pixel,
                                  pixel_distance2 |-> pixel_distance2]>>,
          !.scale_factor = <<[real_distance |-> real_distance,
                              pixel_distance2 |-> pixel_distance2]>>]

\* reference_points[point_id] = {...}: a dict in insertion order, a known
\* key keeps its place
set_reference_point(points, point) ==
    IF \E i \in 1..Len(points) : points[i].point_id = point.point_id
    THEN [i \in 1..Len(points) |->
            IF points[i].point_id = point.point_id THEN point ELSE points[i]]
    ELSE Append(points, point)

add_reference_point_body_at_three(g, point) ==
    LET gcp == GroundControlPoint(point.point_id, point.pixel_coord, point.geo_coord)
        g1 == [g EXCEPT !.gcps = Append(@, gcp)]
        g2 == IF Len(g1.gcps) >= 3 THEN _update_transformers(g1) ELSE g1
        g3 == [g2 EXCEPT !.reference_points = set_reference_point(@, point)]
    IN IF Len(g3.reference_points) = 3 THEN calculate_reference_line(g3) ELSE g3

\* GridLocationService.add_reference_point as a function of the service's fields
add_reference_point_body(g, point) ==
    LET gcp == GroundControlPoint(point.point_id, point.pixel_coord, point.geo_coord)
        g1 == [g EXCEPT !.gcps = Append(@, gcp)]
        g2 == IF Len(g1.gcps) >= 3 THEN _update_transformers(g1) ELSE g1
        g3 == [g2 EXCEPT !.reference_points = set_reference_point(@, point)]
    IN IF Len(g3.reference_points) = 2 THEN calculate_reference_line(g3) ELSE g3

\* GridLocationService.pixel_to_geo: ValueError without a transformer, else
\* (lat, lon) of the pixel
pixel_to_geo(g, pixel_x, pixel_y) ==
    IF g.transformer = Unset
    THEN [raised |-> TRUE, result |-> <<>>]
    ELSE LET lonlat == xy(g.transformer[1], pixel_y, pixel_x)
         IN [raised |-> FALSE, result |-> <<lonlat[2], lonlat[1]>>]

\* GridLocationService.geo_to_pixel: ValueError without an inverse
\* transformer, else (int(col), int(row)) of rowcol(lon, lat)
geo_to_pixel(g, lat, lon) ==
    IF g.inverse_transformer = Unset
    THEN [raised |-> TRUE, result |-> <<>>]
    ELSE LET rc == rowcol(g.inverse_transformer[1], lon, lat)
         IN [raised |-> FALSE, result |-> <<rc[2], rc[1]>>]

\* a call of add_reference_point (from _initialize_from_config or later)
add_reference_point(point) ==
    /\ Len(grid.gcps) < MaxPoints
    /\ fit_defined(Append(grid.gcps,
           GroundControlPoint(point.point_id, point.pixel_coord, point.geo_coord)))
    /\ grid' = add_reference_point_body(grid, point)
    /\ geo_call' = [op |-> "add_reference_point", raised |-> FALSE, result |-> <<>>]
    /\ UNCHANGED <<resolver_vars, event_vars, threads, halted, stream_vars,
                   rtsp_vars>>

\* a call of pixel_to_geo
pixel_to_geo_call(pixel) ==
    /\ geo_call' = [op |-> "pixel_to_geo"] @@ pixel_to_geo(grid, pixel[1], pixel[2])
    /\ UNCHANGED <<resolver_vars, event_vars, threads, halted, stream_vars, grid,
                   rtsp_vars>>

\* a call of geo_to_pixel with (lat, lon)
geo_to_pixel_call(geo) ==
    /\ geo_call' = [op |-> "geo_to_pixel"] @@ geo_to_pixel(grid, geo[1], geo[2])
    /\ UNCHANGED <<resolver_vars, event_vars, threads, halted, stream_vars, grid,
                   rtsp_vars>>

\* the coordinates geo_to_pixel is asked for: whole degrees, and what
\* pixel_to_geo answers for a pixel
GeoInputs(g) ==
    {<<<<c[1], 1>>, <<c[2], 1>>>> : c \in GeoCoords}
        \cup {pixel_to_geo(g, p[1], p[2]).result :
                p \in {q \in Pixels : ~pixel_to_geo(g, q[1], q[2]).raised}}

NextGeo ==
    \/ \E point \in ControlPoints : add_reference_point(point)
    \/ \E pixel \in Pixels : pixel_to_geo_call(pixel)
    \/ \E geo \in GeoInputs(grid) : geo_to_pixel_call(geo)

\* a camera's GridLocationService is calibrated and asked for transforms
SpecGeo == Init /\ [][NextGeo]_vars

\* time passes
Tick(dt) ==
    /\ clock + dt <= StartClock + MaxElapsed
    /\ clock' = clock + dt
    /\ UNCHANGED <<resolver_vars, active_events, last_track_time, vessel_objects,
                   event_objects, last_call, cycle_sightings, threads, halted,
                   stream_vars, geo_vars, rtsp_vars>>

Next ==
    \E cameraId \in Cameras, objs \in FramesOf(VesselDetections) :
        process_camera_frame(cameraId, objs)

Spec == Init /\ [][Next]_vars

NextTypes ==
    \E cameraId \in TypedCameras, objs \in FramesOf(TypedDetections) :
        process_camera_frame(cameraId, objs)

SpecTypes == Init /\ [][NextTypes]_vars

NextDims ==
    \E cameraId \in DimCameras, objs \in FramesOf(DimDetections) :
        process_camera_frame(cameraId, objs)

\* a VesselMCMOT fed embeddings of the right and of a wrong dimension
SpecDims == Init /\ [][NextDims]_vars

NextBase ==
    \E cameraId \in BaseCameras, objs \in FramesOf(BaseDetections) :
        MCMOT_process_camera_frame(cameraId, objs)

NextAny == Next \/ NextBase

NextEvents ==
    \/ \E global_id \in GlobalIds \cup {None}, camera_id \in EventCameras,
          channel_type \in ChannelTypes :
            \E coordinates \in PositionsSeenBy(camera_id) :
                process_detection(global_id, camera_id, coordinates, channel_type, "none")
    \/ \E camera_id \in EventCameras : check_event_completion(camera_id, "none")
    \/ \E dt \in TickSteps : Tick(dt)

\* the sightings of one identity, with saves that may fail
PersistedIds == {1}

NextPersistence ==
    \/ \E global_id \in PersistedIds, camera_id \in EventCameras,
          channel_type \in ChannelTypes, save_fails \in SaveFailures :
            \E coordinates \in PositionsSeenBy(camera_id) :
                process_detection(global_id, camera_id, coordinates, channel_type,
                                  save_fails)
    \/ \E camera_id \in EventCameras, save_fails \in SaveFailures :
          check_event_completion(camera_id, save_fails)
    \/ \E dt \in TickSteps : Tick(dt)

\* the positions a camera's geo reference may report for the identity it
\* sights: it moves under camera1 (coordinates are even, so every mean of
\* one or two of them is whole)
MovingPositions(camera_id) ==
    IF camera_id = "camera1"
    THEN {[latitude |-> 0, longitude |-> 24], [latitude |-> 4, longitude |-> 20]}
    ELSE {[latitude |-> 12, longitude |-> 0]}

NextPositions ==
    \/ \E global_id \in PersistedIds, camera_id \in EventCameras,
          channel_type \in ChannelTypes :
            \E coordinates \in MovingPositions(camera_id) :
                process_detection(global_id, camera_id, coordinates, channel_type, "none")
    \/ \E camera_id \in EventCameras : check_event_completion(camera_id, "none")
    \/ \E dt \in TickSteps : Tick(dt)

\* two identities sighted by the first and the terminal camera, and the
\* completion checks of both cameras
CompletionIds == {1, 2}

NextCompletion ==
    \/ \E global_id \in CompletionIds, camera_id \in EventCameras,
          channel_type \in ChannelTypes :
            \E coordinates \in PositionsSeenBy(camera_id) :
                process_detection(global_id, camera_id, coordinates, channel_type, "none")
    \/ \E camera_id \in EventCameras : check_event_completion(camera_id, "none")
    \/ Tick(tracking_interval)

SpecCompletion == Init /\ [][NextCompletion]_vars

\* the sightings of one identity whose event is never completed, with a
\* database that may fail while the event record is created or saved
CreationFailures == {"none", "event.save"}

NextCreation ==
    \/ \E global_id \in PersistedIds, camera_id \in EventCameras,
          channel_type \in ChannelTypes, save_fails \in CreationFailures :
            \E coordinates \in PositionsSeenBy(camera_id) :
                process_detection(global_id, camera_id, coordinates, channel_type,
                                  save_fails)
    \/ \E dt \in TickSteps : Tick(dt)

SpecCreation == Init /\ [][NextCreation]_vars

\* one identity moves under two cameras
SpecPositions == Init /\ [][NextPositions]_vars

\* the resolver's frames of two cameras next to the event service's sightings
\* of resolved and unresolved detections
PipelineDetections ==
    [class_name : {"vessel"}, local_id : {1}, feature : {0}, area : {1, 2}]

NextPipeline ==
    \/ \E cameraId \in DimCameras, objs \in FramesOf(PipelineDetections) :
          process_camera_frame(cameraId, objs)
    \/ \E global_id \in PersistedIds \cup {None}, camera_id \in EventCameras,
          channel_type \in ChannelTypes :
            \E coordinates \in PositionsSeenBy(camera_id) :
                process_detection(global_id, camera_id, coordinates, channel_type, "none")

SpecPipeline == Init /\ [][NextPipeline]_vars

\* the event service with a database whose saves may fail
SpecPersistence == Init /\ [][NextPersistence]_vars

\* one RTSPService, its owner and its capture threads, and the clock
LoopStep(th) ==
    \/ loop_test(th)
    \/ \E whole_frame \in BOOLEAN : loop_read(th, whole_frame)
    \/ _handle_stream_error(th)
    \/ _reconnect(th)
    \/ \E popen_fails \in BOOLEAN : _reconnect_connect(th, popen_fails)

NextRtsp ==
    \/ \E popen_fails \in BOOLEAN : connect(popen_fails)
    \/ \E th \in Loops : LoopStep(th)
    \/ disconnect_stop
    \/ disconnect_terminate
    \/ \E dt \in TickSteps : Tick(dt)

SpecRtsp == Init /\ [][NextRtsp]_vars

\* every thread that can take a step of _stream_capture takes one
SpecRtspFair == SpecRtsp /\ \A th \in Loops : WF_vars(LoopStep(th))

NextStream ==
    \/ \E camera_id \in StreamCameras : _stream_capture(camera_id)
    \/ get_synchronized_frames
    \/ \E dt \in TickSteps : Tick(dt)

\* the capture threads store frames while the caller asks for frame sets
SpecStream == Init /\ [][NextStream]_vars

NextCycle == \E frames \in FrameSets : synchronized_cycle(frames)

\* the frame loop, handed frame sets
SpecCycle == Init /\ [][NextCycle]_vars

NextThreads ==
    \E th \in Threads :
        \/ \E cameraId \in ThreadCameras, obj \in ThreadDetections :
              thread_enter(th, cameraId, obj)
        \/ thread_lookup(th)
        \/ thread_match(th)
        \/ thread_read_counter(th)
        \/ thread_advance_counter(th)
        \/ thread_store(th)
        \/ thread_bind(th)
        \/ thread_update(th)

\* one resolver shared by threads that each make one call
SpecThreads == Init /\ [][NextThreads]_vars

\* the event service, handed resolved detections while time passes
SpecEvents == Init /\ [][NextEvents]_vars

\* a resolver of either class, fed frames
SpecAny == InitAny /\ [][NextAny]_vars

\* ================================================================ claims
AllKeys == object_types \X Cameras \X LocalIds

IsBound(t, c, l) ==
    /\ c \in DOMAIN local_to_global_id[t]
    /\ l \in DOMAIN local_to_global_id[t][c]

BoundId(t, c, l) == local_to_global_id[t][c][l]

BoundKeys == {k \in AllKeys : IsBound(k[1], k[2], k[3])}

\* the global_id a resolution hands back (the annotation of its detection)
Returned(s) == s.detected_objects[Len(s.detected_objects)].global_id

\* the camera topology: the cameras whose gallery entries c may match against
predecessors(c) ==
    CASE c = "camera2" -> {"camera1"}
      [] c = "camera3" -> {"camera2"}
      [] c = "camera4" -> {"camera3"}
      [] OTHER -> {}

\* the resolver's own fields are the same in s as in the current state
SameResolverState(s) ==
    /\ s.gallery = gallery
    /\ s.local_to_global_id = local_to_global_id
    /\ s.global_id_counter = global_id_counter
    /\ s.faiss_indexes = faiss_indexes
    /\ s.max_size_record = max_size_record

\* ---------------------------------------------------------------- C1
C1_ReturnsBinding ==
    \A cameraId \in Cameras, obj \in VesselDetections :
        IsBound(obj.class_name, cameraId, obj.local_id) =>
            \A s \in process_object(Self, cameraId, obj) :
                /\ ~s.raised
                /\ Returned(s) = BoundId(obj.class_name, cameraId, obj.local_id)

C1_BindingKept ==
    \A k \in BoundKeys :
        /\ k[2] \in DOMAIN local_to_global_id'[k[1]]
        /\ k[3] \in DOMAIN local_to_global_id'[k[1]][k[2]]
        /\ local_to_global_id'[k[1]][k[2]][k[3]] = BoundId(k[1], k[2], k[3])

\* C1: once (class, camera, local track) is bound to g, every later
\* resolution of that key returns g, and no frame changes or removes the
\* binding.
C1_Idempotence == [](C1_ReturnsBinding) /\ [][C1_BindingKept]_vars

\* a bound track was resolved again while another track holds a binding too
C1_Witness ==
    /\ outcome = <<"bound">>
    /\ Cardinality(BoundKeys) >= 2

\* ---------------------------------------------------------------- C2
\* C2: per class, the ids handed out by successive registrations are
\* strictly increasing, hence never handed out twice, also after the base
\* class's sweep has deleted gallery entries.
C2_StrictlyIncreasing ==
    \A t \in object_types :
        \A i, j \in 1..Len(allocated[t]) : i < j => allocated[t][i] < allocated[t][j]

\* a base-class resolver registered an identity after the sweep had deleted
\* an earlier one from the gallery
C2_Witness ==
    /\ kind = "MCMOT"
    /\ outcome = <<"registered">>
    /\ Len(allocated["vessel"]) >= 2
    /\ allocated["vessel"][1] \notin DOMAIN gallery["vessel"]

\* ---------------------------------------------------------------- C3
Unrelated(c1, c2) == c1 \notin predecessors(c2) /\ c2 \notin predecessors(c1)

\* C3 as stated: two different local tracks of a class on cameras that are
\* not in each other's predecessor set never share a global_id.
C3_DistinctWhenUnrelated ==
    \A k1, k2 \in BoundKeys :
        (k1 # k2 /\ k1[1] = k2[1] /\ Unrelated(k1[2], k2[2])) =>
            BoundId(k1[1], k1[2], k1[3]) # BoundId(k2[1], k2[2], k2[3])

HoldsFeatureFrom(t, g, cams) ==
    /\ g \in DOMAIN gallery[t]
    /\ \E c \in cams : c \in DOMAIN gallery[t][g].camera_features

\* C3 amended: two different local tracks of a class share a global_id only
\* if that identity's gallery entry holds an embedding of a predecessor
\* camera of one of the two tracks' cameras; tracks of a camera without
\* predecessors always get distinct ids.
C3_SharedOnlyThroughPredecessor ==
    \A k1, k2 \in BoundKeys :
        (k1 # k2 /\ k1[1] = k2[1]
            /\ BoundId(k1[1], k1[2], k1[3]) = BoundId(k2[1], k2[2], k2[3])) =>
            HoldsFeatureFrom(k1[1], BoundId(k1[1], k1[2], k1[3]),
                             predecessors(k1[2]) \cup predecessors(k2[2]))

\* two tracks on camera 1 with the same embedding are bound, to different
\* ids, and a track of camera 2 shares the id of one of them
C3_Witness ==
    /\ IsBound("vessel", "camera1", 1) /\ IsBound("vessel", "camera1", 2)
    /\ BoundId("vessel", "camera1", 1) # BoundId("vessel", "camera1", 2)
    /\ faiss_indexes["vessel"][1] = faiss_indexes["vessel"][2]
    /\ \E l \in LocalIds :
          /\ IsBound("vessel", "camera2", l)
          /\ BoundId("vessel", "camera2", l) = BoundId("vessel", "camera1", 1)

\* ---------------------------------------------------------------- C4
\* C4: the first resolved sighting of any global id the counter can issue,
\* handed to process_detection, leaves an entry for it in active_events.
C4_FirstSightingActivates ==
    (last_call.op = "process_detection" /\ last_call.global_id \in GlobalIds)
        => last_call.global_id \in DOMAIN active_events

\* ---------------------------------------------------------------- C5
EventsOf(global_id) ==
    {i \in 1..Len(event_objects) : event_objects[i].global_id = global_id}

\* C5: COMPLETED is terminal: at most one event is ever created per
\* global id, none after its event was completed.
C5_AtMostOneEvent ==
    \A global_id \in GlobalIds : Cardinality(EventsOf(global_id)) <= 1

\* ---------------------------------------------------------------- C6
C6_Step ==
    last_call'.op = "check_event_completion" =>
        \A global_id \in DOMAIN active_events :
            global_id \notin DOMAIN active_events' =>
                /\ TERMINAL_CAMERA \in DOMAIN active_events[global_id].camera_positions
                /\ global_id \notin cycle_sightings

\* C6: the terminal camera's check completes an event only if that camera
\* contributed a position earlier and sighted the identity in no detection
\* of the current cycle.
C6_CompletedOnlyWhenGone == [][C6_Step]_vars

\* ---------------------------------------------------------------- C7
\* C7: consecutive tracking points of an event, the initial one included,
\* are at least tracking_interval apart.
C7_SamplingSpacing ==
    \A i \in 1..Len(event_objects) :
        LET tracking_points == event_objects[i].tracking_points
        IN \A n \in 1..(Len(tracking_points) - 1) :
              tracking_points[n + 1].timestamp - tracking_points[n].timestamp
                  >= tracking_interval

\* ---------------------------------------------------------------- C8
StoredKeys ==
    {k \in object_types \X (0..MaxObjects) \X Cameras :
        /\ k[2] \in DOMAIN gallery[k[1]]
        /\ k[3] \in DOMAIN gallery[k[1]][k[2]].camera_features}

C8_Step ==
    \A k \in StoredKeys :
        gallery'[k[1]][k[2]].camera_features[k[3]] # gallery[k[1]][k[2]].camera_features[k[3]]
            => best_seen'[k].area > best_seen[k].area

\* C8: the embedding stored for (class, global_id, camera) is replaced only
\* by a frame holding a detection of that identity on that camera whose area
\* strictly exceeds the largest area submitted for it before.
C8_OverwriteOnlyWhenLarger == [][C8_Step]_vars

\* ---------------------------------------------------------------- C9
\* C9: after detections of (class, global_id, camera), the stored embedding
\* and the recorded maximum area are those of the detection with the largest
\* area (so of the later of two detections with areas a1 < a2), whichever
\* branch the detections took.
C9_LargestShotStored ==
    \A k \in DOMAIN best_seen :
        /\ k \in StoredKeys
        /\ gallery[k[1]][k[2]].camera_features[k[3]] = best_seen[k].feature
        /\ k[2] \in DOMAIN max_size_record
        /\ k[3] \in DOMAIN max_size_record[k[2]]
        /\ max_size_record[k[2]][k[3]] = best_seen[k].area

C11_FreshAfterDropped ==
    \A obj \in VesselDetections :
        (/\ <<obj.class_name, CAMERA_1_ID, obj.local_id>> \in dropped
         /\ ~IsBound(obj.class_name, CAMERA_1_ID, obj.local_id)
         /\ obj.area >= VESSEL_SIZE_THRESHOLD) =>
            \A s \in process_object(Self, CAMERA_1_ID, obj) :
                /\ ~s.raised
                /\ Returned(s) # None
                /\ \A i \in 1..Len(allocated[obj.class_name]) :
                      allocated[obj.class_name][i] # Returned(s)
                /\ Returned(s) \notin DOMAIN gallery[obj.class_name]
                /\ Returned(s) \in DOMAIN s.gallery[obj.class_name]
                /\ CAMERA_1_ID \in DOMAIN s.local_to_global_id[obj.class_name]
                /\ obj.local_id \in DOMAIN s.local_to_global_id[obj.class_name][CAMERA_1_ID]
                /\ s.local_to_global_id[obj.class_name][CAMERA_1_ID][obj.local_id]
                      = Returned(s)

\* a track of camera 1 that had been resolved to none was registered by the
\* last frame, under the second identity of the gallery
C11_Witness ==
    /\ outcome = <<"registered">>
    /\ Len(allocated["vessel"]) = 2
    /\ \E l \in LocalIds :
          /\ <<"vessel", CAMERA_1_ID, l>> \in dropped
          /\ IsBound("vessel", CAMERA_1_ID, l)
          /\ BoundId("vessel", CAMERA_1_ID, l) = allocated["vessel"][2]

\* --------------------------------------------------------------- C12
\* the branch the resolution took
Branch(s) == s.detected_objects[Len(s.detected_objects)].branch

EligibleFor(t, c) ==
    {g \in DOMAIN gallery[t] : HoldsFeatureFrom(t, g, predecessors(c))}

\* C12: a resolution on camera C that reuses a global_id through matching
\* reuses one whose gallery entry holds, at that moment, an embedding of a
\* camera in predecessors(C); when no entry of the class holds one, the
\* resolution does not match, and registers a new identity when the area is
\* at or above size_threshold.
C12_MatchOnlyEligible ==
    \A cameraId \in Cameras, obj \in VesselDetections :
        ~IsBound(obj.class_name, cameraId, obj.local_id) =>
            \A s \in process_object(Self, cameraId, obj) :
                /\ (~s.raised /\ Branch(s) = "matched") =>
                      Returned(s) \in EligibleFor(obj.class_name, cameraId)
                /\ EligibleFor(obj.class_name, cameraId) = {} =>
                      /\ ~s.raised
                      /\ Branch(s) # "matched"
                      /\ obj.area >= VESSEL_SIZE_THRESHOLD =>
                            /\ Branch(s) = "registered"
                            /\ Returned(s) = global_id_counter[obj.class_name]
                            /\ Returned(s) \notin DOMAIN gallery[obj.class_name]

\* the last frame matched a detection while the gallery also holds an
\* identity that no predecessor of any camera has seen
\* predecessors hold nothing registered an identity next to existing ones
C12_Witness ==
    /\ outcome = <<"matched">>
    /\ \E g \in DOMAIN gallery["vessel"] :
          DOMAIN gallery["vessel"][g].camera_features = {CAMERA_4_ID}

\* --------------------------------------------------------------- C13
\* the embedding of candidate g that camera c compares with: the one stored
\* for c's predecessor camera
SelectedEmbedding(t, g, c) ==
    gallery[t][g].camera_features[
        CHOOSE p \in predecessors(c) : p \in DOMAIN gallery[t][g].camera_features]

\* C13: a resolution on camera C that matches returns a candidate (an entry
\* holding a predecessor embedding) whose selected embedding is nearest to
\* the query among the candidates and strictly closer than match_threshold;
\* a match is declared exactly when some candidate is that close, whatever
\* other vectors the index holds, and the resolution does not fail.
C13_NearestCandidate ==
    \A cameraId \in Cameras, obj \in VesselDetections :
        (/\ ~IsBound(obj.class_name, cameraId, obj.local_id)
         /\ obj.area >= VESSEL_SIZE_THRESHOLD) =>
            LET t == obj.class_name
                candidates == EligibleFor(t, cameraId)
                distance(g) == L2(SelectedEmbedding(t, g, cameraId), obj.feature)
            IN \A s \in process_object(Self, cameraId, obj) :
                  /\ ~s.raised
                  /\ Branch(s) = "matched" =>
                        /\ Returned(s) \in candidates
                        /\ distance(Returned(s)) < GALLERY_MATCH_THRESHOLD
                        /\ \A g \in candidates : distance(Returned(s)) <= distance(g)
                  /\ Branch(s) # "matched" =>
                        \A g \in candidates : distance(g) >= GALLERY_MATCH_THRESHOLD

\* --------------------------------------------------------------- C14
\* the resolver as constructed
Constructed ==
    [Self EXCEPT
        !.gallery = [t \in object_types |-> EmptyDict],
        !.local_to_global_id = [t \in object_types |-> EmptyDict],
        !.global_id_counter = [t \in object_types |-> 0],
        !.faiss_indexes = [t \in object_types |-> <<>>],
        !.max_size_record = EmptyDict,
        !.allocated = [t \in object_types |-> <<>>]]

\* the states the two calls leave when one runs after the other
Serial(a, b) ==
    UNION {process_objects(s, threads[b].cameraId, <<threads[b].obj>>) :
              s \in process_objects(Constructed, threads[a].cameraId, <<threads[a].obj>>)}

\* C14: calls of process_camera_frame made concurrently for frames of
\* different cameras leave the resolver as some one-after-the-other
\* execution of them does: no global_id is handed out twice and no binding
\* or gallery write is lost.
C14_Serializable ==
    (/\ \A th \in Threads : threads[th].pc \in {"done", "raised"}
     /\ threads["thread1"].cameraId # threads["thread2"].cameraId) =>
        /\ \A i, j \in 1..Len(allocated["vessel"]) :
              i < j => allocated["vessel"][i] # allocated["vessel"][j]
        /\ \E s \in Serial("thread1", "thread2") \cup Serial("thread2", "thread1") :
              SameResolverState(s)

\* --------------------------------------------------------------- C15
\* C15 as stated: the resolution of a bound track returns the bound
\* global_id and leaves stored embeddings, recorded maximum areas, index and
\* counter unchanged, whatever the detection's area.
C15_BoundNoGalleryAccess ==
    \A cameraId \in Cameras, obj \in TypedDetections :
        IsBound(obj.class_name, cameraId, obj.local_id) =>
            \A s \in process_object(Self, cameraId, obj) :
                /\ ~s.raised
                /\ Returned(s) = BoundId(obj.class_name, cameraId, obj.local_id)
                /\ SameResolverState(s)

\* C15 amended: the resolution of a bound track returns the bound global_id
\* and leaves bindings, index and counter unchanged; it replaces the
\* embedding stored for (class, global_id, camera) and the maximum area
\* recorded for (global_id, camera) by the detection's when its area strictly
\* exceeds that recorded maximum, and changes nothing otherwise.
C15_BoundTouchesOnlyBestShot ==
    \A cameraId \in Cameras, obj \in TypedDetections :
        IsBound(obj.class_name, cameraId, obj.local_id) =>
            LET t == obj.class_name
                g == BoundId(t, cameraId, obj.local_id)
                recorded == Get(max_size_record, g, EmptyDict)
            IN \A s \in process_object(Self, cameraId, obj) :
                  /\ ~s.raised
                  /\ Returned(s) = g
                  /\ s.local_to_global_id = local_to_global_id
                  /\ s.global_id_counter = global_id_counter
                  /\ s.faiss_indexes = faiss_indexes
                  /\ IF obj.area > Get(recorded, cameraId, 0)
                     THEN /\ s.gallery = [gallery EXCEPT ![t][g].camera_features =
                                              Put(@, cameraId, obj.feature)]
                          /\ s.max_size_record =
                                Put(max_size_record, g, Put(recorded, cameraId, obj.area))
                     ELSE /\ s.gallery = gallery
                          /\ s.max_size_record = max_size_record

\* the last frame resolved a bound track and replaced the embedding the
\* track was registered with, which the index still holds
C15_Witness ==
    /\ outcome = <<"bound">>
    /\ Len(faiss_indexes["vessel"]) = 1
    /\ \E g \in DOMAIN gallery["vessel"], c \in TypedCameras :
          /\ DOMAIN gallery["vessel"][g].camera_features = {c}
          /\ gallery["vessel"][g].camera_features[c] # faiss_indexes["vessel"][1]

\* --------------------------------------------------------------- C16
\* C16: a resolution whose embedding has the wrong dimension fails with an
\* error and leaves counter, gallery, index, recorded areas and bindings as
\* they were, on cameras with and without predecessors.
C16_WrongDimensionRejected ==
    \A cameraId \in DimCameras, obj \in DimDetections :
        dimension(obj.feature) # index_dim =>
            \A s \in process_object(Self, cameraId, obj) :
                /\ s.raised
                /\ SameResolverState(s)

\* --------------------------------------------------------------- C17
Unregistered(obj) == obj.class_name \notin object_types

\* C17: a detection of a class that was not registered makes its resolution
\* fail and leaves bindings, gallery, index and counters as they were, and
\* the frames of the other cameras of the cycle are still processed: a
\* registrable vessel in the next camera's frame ends up bound.
C17_UnregisteredClassSkipped ==
    /\ \A cameraId \in Range(CycleCameras), obj \in CycleDetections :
          Unregistered(obj) =>
              \A s \in process_object(Self, cameraId, obj) :
                  s.raised /\ SameResolverState(s)
    /\ ~halted =>
          \A frames \in FrameSets :
              (/\ DOMAIN frames = {"camera1", "camera2"}
               /\ Len(frames["camera1"]) = 1 /\ Unregistered(frames["camera1"][1])
               /\ Len(frames["camera2"]) = 1 /\ ~Unregistered(frames["camera2"][1])
               /\ frames["camera2"][1].area >= VESSEL_SIZE_THRESHOLD) =>
                  \A s \in process_frames(Self, frames, 1) :
                      has_binding(s, "vessel", "camera2", frames["camera2"][1].local_id)

\* --------------------------------------------------------------- C18
\* the service as it is left by a call that raised, ready for the next call
Recovered(e) == [e EXCEPT !.raised = FALSE]

\* C18: a save that fails during an update or a completion raises to the
\* caller and what the call had already changed in memory stays: the
\* camera position and last_seen when the vessel save fails; also the new
\* tracking point and last-sample time when the event save fails; the
\* end_time when the completion's save fails, with the event still active so
\* that the next terminal-camera check completes it.
C18_FailedSaveKeepsChanges ==
    \A global_id \in DOMAIN active_events :
        LET event_data == active_events[global_id]
        IN /\ \A camera_id \in EventCameras, channel_type \in ChannelTypes :
                \A coordinates \in PositionsSeenBy(camera_id) :
                    LET fv == _update_event(Service, global_id, camera_id, clock,
                                            coordinates, channel_type, clock, "vessel.save")
                        fe == _update_event(Service, global_id, camera_id, clock,
                                            coordinates, channel_type, clock, "event.save")
                        points == fe.event_objects[event_data.event].tracking_points
                    IN /\ fv.raised
                       /\ camera_id \in DOMAIN fv.active_events[global_id].camera_positions
                       /\ fv.active_events[global_id].camera_positions[camera_id] = coordinates
                       /\ fv.vessel_objects[event_data.vessel].last_seen = clock
                       /\ fe.raised <=>
                             clock - Get(last_track_time, global_id, 0) >= tracking_interval
                       /\ fe.raised =>
                             /\ fe.active_events[global_id].camera_positions[camera_id]
                                   = coordinates
                             /\ Len(points) =
                                   Len(event_objects[event_data.event].tracking_points) + 1
                             /\ points[Len(points)].timestamp = clock
                             /\ global_id \in DOMAIN fe.last_track_time
                             /\ fe.last_track_time[global_id] = clock
           /\ TERMINAL_CAMERA \in DOMAIN event_data.camera_positions =>
                LET fc == complete_all(Service, {global_id}, clock, "event.save")
                    again == complete_all(Recovered(fc), DOMAIN fc.active_events, clock, "none")
                IN /\ fc.raised
                   /\ global_id \in DOMAIN fc.active_events
                   /\ fc.event_objects[event_data.event].end_time = clock
                   /\ global_id \notin DOMAIN again.active_events

\* the terminal camera's check failed on a save: the event is still active
\* and carries the end_time the failed call gave it
C18_Witness ==
    /\ last_call.op = "check_event_completion"
    /\ last_call.raised
    /\ \E global_id \in DOMAIN active_events :
          event_objects[active_events[global_id].event].end_time = clock

\* --------------------------------------------------------------- C19
\* C19: a detection whose global_id is none creates and updates no event
\* (active_events, last_track_time and the records are as before), and a
\* detection that process_camera_frame resolves to none is still in the list
\* it returns, at its place, annotated with the camera and global_id none.
C19_UnresolvedVisibleNotTracked ==
    /\ \A camera_id \in EventCameras, channel_type \in ChannelTypes :
          \A coordinates \in PositionsSeenBy(camera_id) :
              process_detection_body(Service, None, camera_id, clock, coordinates,
                                     channel_type, clock, "none") = Service
    /\ \A cameraId \in DimCameras, objs \in FramesOf(VesselDetections) :
          \A s \in process_objects(Self, cameraId, objs) :
              ~s.raised =>
                  /\ Len(s.detected_objects) = Len(objs)
                  /\ \A i \in 1..Len(objs) :
                        LET object == s.detected_objects[i]
                        IN /\ object.local_id = objs[i].local_id
                           /\ object.class_name = objs[i].class_name
                           /\ object.camera_id = cameraId
                           /\ (/\ objs[i].area < VESSEL_SIZE_THRESHOLD
                               /\ \A j \in 1..i : objs[j].local_id = objs[i].local_id
                                                    => objs[j].area < VESSEL_SIZE_THRESHOLD
                               /\ ~IsBound(objs[i].class_name, cameraId, objs[i].local_id))
                                => object.global_id = None

\* a frame's detection was resolved to none and an unresolved detection was
\* handed to the event service while an event is active
C19_Witness ==
    /\ outcome = <<"small">>
    /\ last_call.op = "process_detection"
    /\ last_call.global_id = None
    /\ active_events # EmptyDict

\* --------------------------------------------------------------- C20
\* C20: the frame set of a cycle (a call made once the interval has passed)
\* holds exactly the cameras that captured a frame since the previous frame
\* set: a camera with no new frame, or with no frame ever, is absent, every
\* camera with a new frame is present.
C20_OnlyFreshCameras ==
    (sync_log.called /\ sync_log.due) => DOMAIN sync_log.returned = sync_log.fresh_before

\* --------------------------------------------------------------- C21
\* C21: with fewer than three control points registered pixel_to_geo and
\* geo_to_pixel fail for every argument, and a failed call leaves the service
\* as it was; once three points are registered both answer for every argument.
C21_TransformsNeedThreePoints ==
    /\ [](/\ \A p \in Pixels :
               pixel_to_geo(grid, p[1], p[2]).raised <=> Len(grid.gcps) < 3
          /\ \A c \in GeoCoords :
               geo_to_pixel(grid, <<c[1], 1>>, <<c[2], 1>>).raised <=> Len(grid.gcps) < 3)
    /\ [][(geo_call'.op \in {"pixel_to_geo", "geo_to_pixel"} /\ geo_call'.raised)
             => grid' = grid]_vars

\* a transform was asked for after the second control point and failed
C21_Witness ==
    /\ Len(grid.gcps) = 2
    /\ geo_call.op = "geo_to_pixel"
    /\ geo_call.raised

\* --------------------------------------------------------------- C22
\* C22: once three or more control points are registered, geo_to_pixel of
\* pixel_to_geo of a pixel is that pixel.
C22_RoundTrip ==
    \A p \in Pixels :
        LET geo == pixel_to_geo(grid, p[1], p[2])
        IN ~geo.raised =>
             LET back == geo_to_pixel(grid, geo.result[1], geo.result[2])
             IN ~back.raised /\ back.result = p

\* --------------------------------------------------------------- C23
\* C23: direction vector and scale exist exactly from the second control
\* point (by id) on, also while there is no transform; when the second point
\* arrives they are the unit pixel vector from the first to the second point
\* and the great-circle distance of the two over their pixel distance; a
\* later point with a new id refits the transform on all registered points
\* and leaves direction vector and scale as they were.
C23_ReferenceLineFromFirstTwo ==
    /\ [](/\ grid.direction_vector # Unset <=> Len(grid.reference_points) >= 2
          /\ grid.scale_factor # Unset <=> Len(grid.reference_points) >= 2)
    /\ [][/\ (Len(grid.reference_points) = 1 /\ Len(grid.reference_points') = 2) =>
                LET p1 == grid'.reference_points[1].pixel_coord
                    p2 == grid'.reference_points[2].pixel_coord
                    g1 == grid'.reference_points[1].geo_coord
                    g2 == grid'.reference_points[2].geo_coord
                    d2 == (p2[1] - p1[1]) * (p2[1] - p1[1])
                            + (p2[2] - p1[2]) * (p2[2] - p1[2])
                IN /\ grid'.direction_vector =
                        <<[dx |-> p2[1] - p1[1], dy |-> p2[2] - p1[2],
                           pixel_distance2 |-> d2]>>
                   /\ grid'.scale_factor =
                        <<[real_distance |-> [lat1 |-> g1[1], lon1 |-> g1[2],
                                              lat2 |-> g2[1], lon2 |-> g2[2]],
                           pixel_distance2 |-> d2]>>
          /\ (Len(grid.reference_points) >= 2
                 /\ Len(grid.reference_points') = Len(grid.reference_points) + 1) =>
                /\ grid'.direction_vector = grid.direction_vector
                /\ grid'.scale_factor = grid.scale_factor
                /\ grid'.transformer = <<from_gcps(grid'.gcps)>>]_vars

\* a third control point with a new id was registered: the transform exists
\* and the reference line of the first two points is in place
C23_Witness ==
    /\ geo_call.op = "add_reference_point"
    /\ Len(grid.reference_points) = 3
    /\ grid.transformer # Unset
    /\ grid.direction_vector # Unset

\* --------------------------------------------------------------- C24
\* C24: when a sighting creates the event of an identity that had none, the
\* event's start_time and the vessel's first_seen are the sighting's time,
\* the event has exactly one tracking point, at the sighting's coordinates,
\* and the camera position map holds exactly the sighting camera's coordinates.
C24_CreatedEventShape ==
    \A global_id \in PersistedIds, camera_id \in EventCameras,
       channel_type \in ChannelTypes :
        \A coordinates \in MovingPositions(camera_id) :
            LET e == process_detection_body(Service, global_id, camera_id, clock,
                                            coordinates, channel_type, clock, "none")
            IN (global_id \notin DOMAIN active_events
                    /\ global_id \in DOMAIN e.active_events) =>
                 LET data == e.active_events[global_id]
                     event == e.event_objects[data.event]
                     vessel == e.vessel_objects[data.vessel]
                 IN /\ data.event = Len(event_objects) + 1
                    /\ data.vessel = Len(vessel_objects) + 1
                    /\ event.vessel = data.vessel
                    /\ event.start_time = clock
                    /\ vessel.first_seen = clock
                    /\ Len(event.tracking_points) = 1
                    /\ event.tracking_points[1].timestamp = clock
                    /\ event.tracking_points[1].latitude = coordinates.latitude
                    /\ event.tracking_points[1].longitude = coordinates.longitude
                    /\ DOMAIN data.camera_positions = {camera_id}
                    /\ data.camera_positions[camera_id] = coordinates

\* the last call was a sighting that created the active event of its identity
C24_Witness ==
    /\ last_call.op = "process_detection"
    /\ last_call.global_id \in DOMAIN active_events
    /\ LET event == event_objects[active_events[last_call.global_id].event]
       IN /\ event.start_time = clock
          /\ Len(event.tracking_points) = 1
          /\ DOMAIN active_events[last_call.global_id].camera_positions
                 = {last_call.camera_id}

\* --------------------------------------------------------------- C25
\* C25: a tracking point appended by an update is the plain mean of the
\* latitudes and of the longitudes of the cameras that hold a position for
\* the identity after the update, where the sighting camera holds the new
\* coordinates and every other camera the position it held before.
C25_TrackingPointIsMean ==
    \A global_id \in PersistedIds, camera_id \in EventCameras,
       channel_type \in ChannelTypes :
        \A coordinates \in MovingPositions(camera_id) :
            LET e == process_detection_body(Service, global_id, camera_id, clock,
                                            coordinates, channel_type, clock, "none")
            IN global_id \in DOMAIN active_events =>
                 LET before == event_objects[active_events[global_id].event].tracking_points
                     after == e.event_objects[active_events[global_id].event].tracking_points
                     held == active_events[global_id].camera_positions
                     cams == DOMAIN held \cup {camera_id}
                     now_held == [c \in cams |->
                                    IF c = camera_id THEN coordinates ELSE held[c]]
                     n == Cardinality(cams)
                 IN Len(after) = Len(before) + 1 =>
                      /\ n * after[Len(after)].latitude
                            = Sum([c \in cams |-> now_held[c].latitude], cams)
                      /\ n * after[Len(after)].longitude
                            = Sum([c \in cams |-> now_held[c].longitude], cams)

\* an update has just appended a tracking point that lies between the
\* positions two cameras hold
C25_Witness ==
    /\ last_call.op = "process_detection"
    /\ last_call.global_id \in DOMAIN active_events
    /\ LET data == active_events[last_call.global_id]
           points == event_objects[data.event].tracking_points
       IN /\ Cardinality(DOMAIN data.camera_positions) = 2
          /\ Len(points) >= 2
          /\ points[Len(points)].timestamp = clock
          /\ \A c \in DOMAIN data.camera_positions :
                points[Len(points)].latitude # data.camera_positions[c].latitude

\* --------------------------------------------------------------- C26
\* C26: in VesselMCMOT no frame of any camera removes a gallery entry: the
\* ids of each class's gallery only grow, and they are exactly the ids
\* allocated for that class so far.
C26_NoEviction ==
    /\ [](\A t \in object_types :
            DOMAIN gallery[t] = {allocated[t][i] : i \in 1..Len(allocated[t])})
    /\ [][\A t \in object_types : DOMAIN gallery[t] \subseteq DOMAIN gallery'[t]]_vars

\* camera 4 has bound a track while the gallery holds an identity that no
\* track of camera 4 is bound to (what a sweep on camera 4 would delete)
C26_Witness ==
    /\ kind = "VesselMCMOT"
    /\ CAMERA_4_ID \in DOMAIN local_to_global_id["vessel"]
    /\ \E g \in DOMAIN gallery["vessel"] :
          \A l \in DOMAIN local_to_global_id["vessel"][CAMERA_4_ID] :
              local_to_global_id["vessel"][CAMERA_4_ID][l] # g

\* --------------------------------------------------------------- C27
\* C27: in the base MCMOT no frame removes or changes a binding, also not
\* the frame of camera 4 whose sweep deletes the bound id from the gallery;
\* resolving a local track whose bound id is gone from the gallery hands
\* that id back and leaves the gallery without it.
C27_StaleBindingsSurvive ==
    /\ [][kind = "MCMOT" =>
            \A t \in object_types :
                \A c \in DOMAIN local_to_global_id[t] :
                    \A l \in DOMAIN local_to_global_id[t][c] :
                        /\ c \in DOMAIN local_to_global_id'[t]
                        /\ l \in DOMAIN local_to_global_id'[t][c]
                        /\ local_to_global_id'[t][c][l] = local_to_global_id[t][c][l]]_vars
    /\ [](kind = "MCMOT" =>
            \A cameraId \in BaseCameras, obj \in BaseDetections :
                LET t == obj.class_name
                    stale == /\ cameraId \in DOMAIN local_to_global_id[t]
                             /\ obj.local_id \in DOMAIN local_to_global_id[t][cameraId]
                             /\ local_to_global_id[t][cameraId][obj.local_id]
                                    \notin DOMAIN gallery[t]
                IN stale =>
                     \A s \in MCMOT_process_object(Self, cameraId, obj) :
                         /\ ~s.raised
                         /\ Returned(s) = local_to_global_id[t][cameraId][obj.local_id]
                         /\ Returned(s) \notin DOMAIN s.gallery[t])

\* a base-class resolver has just resolved a bound track, and every binding
\* there is refers to an id the sweep has deleted from the gallery
C27_Witness ==
    /\ kind = "MCMOT"
    /\ outcome = <<"bound">>
    /\ \E c \in DOMAIN local_to_global_id["vessel"] :
          DOMAIN local_to_global_id["vessel"][c] # {}
    /\ \A c \in DOMAIN local_to_global_id["vessel"] :
          \A l \in DOMAIN local_to_global_id["vessel"][c] :
              local_to_global_id["vessel"][c][l] \notin DOMAIN gallery["vessel"]

\* --------------------------------------------------------------- C28
\* C28: an identity whose only stored embedding comes from camera 1 (camera 2
\* never saw it) is matched when a new track with that embedding and an area
\* at or above the threshold appears on camera 3 or on camera 4.
C28_EarlierCamerasMatch ==
    \A cameraId \in {CAMERA_3_ID, CAMERA_4_ID}, obj \in VesselDetections :
        \A g \in DOMAIN gallery["vessel"] :
            (/\ kind = "VesselMCMOT"
             /\ DOMAIN gallery["vessel"] = {g}
             /\ DOMAIN gallery["vessel"][g].camera_features = {CAMERA_1_ID}
             /\ gallery["vessel"][g].camera_features[CAMERA_1_ID] = obj.feature
             /\ obj.area >= VESSEL_SIZE_THRESHOLD
             /\ ~IsBound("vessel", cameraId, obj.local_id)) =>
                \A s \in process_object(Self, cameraId, obj) :
                    ~s.raised /\ Returned(s) = g

\* --------------------------------------------------------------- C29
\* the maximum areas recorded for the gallery entry h of class u
RecordedMaxima(record, h) == Get(record, h, EmptyDict)

\* C29: a resolution of an unbound track that finds no match, with an area
\* at or above the threshold, returns the class counter's value and advances
\* that counter by one, adds the gallery entry of that id with the
\* detection's embedding under the camera as its only embedding and the
\* detection's area as the recorded maximum, appends one vector to the
\* class's index and binds the track to the id; every other gallery entry
\* (embeddings and recorded maxima), counter, index and binding is unchanged.
C29_RegistrationEffect ==
    \A cameraId \in TypedCameras, obj \in TypedDetections :
        LET t == obj.class_name
            g == global_id_counter[t]
        IN \A s \in process_object(Self, cameraId, obj) :
              (/\ ~IsBound(t, cameraId, obj.local_id)
               /\ obj.area >= VESSEL_SIZE_THRESHOLD
               /\ ~s.raised
               /\ s.detected_objects[Len(s.detected_objects)].branch = "registered") =>
                 /\ Returned(s) = g
                 /\ s.global_id_counter = [global_id_counter EXCEPT ![t] = g + 1]
                 /\ s.gallery = [gallery EXCEPT ![t] =
                        Put(@, g, [camera_features |-> Put(EmptyDict, cameraId, obj.feature)])]
                 /\ RecordedMaxima(s.max_size_record, g) = Put(EmptyDict, cameraId, obj.area)
                 /\ s.faiss_indexes = [faiss_indexes EXCEPT ![t] = Append(@, obj.feature)]
                 /\ s.local_to_global_id = [local_to_global_id EXCEPT ![t] =
                        Put(@, cameraId, Put(Get(@, cameraId, EmptyDict), obj.local_id, g))]
                 /\ \A u \in object_types :
                       \A h \in DOMAIN gallery[u] :
                           RecordedMaxima(s.max_size_record, h)
                               = RecordedMaxima(max_size_record, h)

\* --------------------------------------------------------------- C30
\* C30: a resolution of an unbound track that finds a match returns the
\* matched id, leaves counters, gallery ids and indexes unchanged and binds
\* the track to the id; in the gallery only the matched entry's embedding
\* and recorded maximum for the camera may change: they become the
\* detection's when the entry holds no embedding of that camera or when the
\* area exceeds the maximum recorded for it, and stay otherwise; what the
\* entry holds for other cameras, and every other entry, is unchanged.
C30_MatchEffect ==
    \A cameraId \in TypedCameras, obj \in TypedDetections :
        LET t == obj.class_name
        IN \A s \in process_object(Self, cameraId, obj) :
              (/\ ~IsBound(t, cameraId, obj.local_id)
               /\ ~s.raised
               /\ s.detected_objects[Len(s.detected_objects)].branch = "matched") =>
                 LET g == Returned(s)
                     entry == gallery[t][g].camera_features
                     stores == \/ cameraId \notin DOMAIN entry
                               \/ obj.area > RecordedMaxima(max_size_record, g)[cameraId]
                 IN /\ g \in DOMAIN gallery[t]
                    /\ s.global_id_counter = global_id_counter
                    /\ s.faiss_indexes = faiss_indexes
                    /\ s.local_to_global_id = [local_to_global_id EXCEPT ![t] =
                           Put(@, cameraId, Put(Get(@, cameraId, EmptyDict), obj.local_id, g))]
                    /\ s.gallery =
                          IF stores
                          THEN [gallery EXCEPT ![t][g].camera_features =
                                   Put(@, cameraId, obj.feature)]
                          ELSE gallery
                    /\ stores => RecordedMaxima(s.max_size_record, g)[cameraId] = obj.area

\* --------------------------------------------------------------- C31
\* C31: the resolution of a detection of one class leaves every other
\* class's bindings, gallery entries with their embeddings, recorded maximum
\* areas, index and counter as they were, also when both classes have issued
\* the same global_id.
C31_ClassesIsolated ==
    \A cameraId \in TypedCameras, obj \in TypedDetections :
        \A s \in process_object(Self, cameraId, obj) :
            \A u \in object_types \ {obj.class_name} :
                /\ s.local_to_global_id[u] = local_to_global_id[u]
                /\ s.gallery[u] = gallery[u]
                /\ s.global_id_counter[u] = global_id_counter[u]
                /\ s.faiss_indexes[u] = faiss_indexes[u]
                /\ \A h \in DOMAIN gallery[u] :
                      RecordedMaxima(s.max_size_record, h)
                          = RecordedMaxima(max_size_record, h)

\* --------------------------------------------------------------- C32
\* C32: a detection of a registered class with an embedding of the index's
\* dimension is resolved without an exception on every camera, after any
\* earlier frames.
C32_NeverRaises ==
    \A cameraId \in Cameras, obj \in VesselDetections :
        (/\ obj.class_name \in object_types
         /\ dimension(obj.feature) = index_dim) =>
            \A s \in process_object(Self, cameraId, obj) : ~s.raised

\* --------------------------------------------------------------- C33
\* C33: on one camera two different local tracks of a class are never bound
\* to the same global_id.
C33_BindingsInjective ==
    \A t \in object_types :
        \A c \in DOMAIN local_to_global_id[t] :
            \A l1, l2 \in DOMAIN local_to_global_id[t][c] :
                l1 # l2 => local_to_global_id[t][c][l1] # local_to_global_id[t][c][l2]

\* --------------------------------------------------------------- C34
\* C34: for each class every global_id of the gallery and of a binding is
\* below the class counter, every binding refers to a gallery entry, and
\* the class's index holds as many vectors as the counter says.
C34_CounterGalleryIndexAgree ==
    \A t \in object_types :
        /\ \A g \in DOMAIN gallery[t] : g < global_id_counter[t]
        /\ \A c \in DOMAIN local_to_global_id[t] :
              \A l \in DOMAIN local_to_global_id[t][c] :
                  /\ local_to_global_id[t][c][l] < global_id_counter[t]
                  /\ local_to_global_id[t][c][l] \in DOMAIN gallery[t]
        /\ Len(faiss_indexes[t]) = global_id_counter[t]

\* --------------------------------------------------------------- C35
\* the active events the terminal camera has sighted
SightedByTerminal(e) ==
    {g \in DOMAIN e.active_events :
        TERMINAL_CAMERA \in DOMAIN e.active_events[g].camera_positions}

C36_FailedCreationOneVessel ==
    /\ \A global_id \in PersistedIds \ DOMAIN active_events :
          \A camera_id \in EventCameras, channel_type \in ChannelTypes :
              \A coordinates \in PositionsSeenBy(camera_id) :
                  LET e == process_detection_body(Service, global_id, camera_id, clock,
                                                  coordinates, channel_type, clock,
                                                  "event.save")
                  IN /\ e.raised
                     /\ e.active_events = active_events
                     /\ e.event_objects = event_objects
    /\ Len(vessel_objects) <= 1

\* --------------------------------------------------------------- C37
\* C37: once disconnect() has returned, is_running stays False and no
\* capture process or capture thread is started any more, and every capture
\* loop comes to its end.
C37_StaysStopped ==
    /\ [](rtsp.owner = "disconnected" =>
            (~rtsp.is_running /\ ~rtsp.started_after_disconnect))
    /\ (rtsp.owner = "disconnected") ~> (RunningLoops(rtsp) = {})

\* --------------------------------------------------------------- C38
\* C38: at most one capture thread of the RTSPService is running
\* _stream_capture at any time, also after reconnects.
C38_OneCaptureThread == Cardinality(RunningLoops(rtsp)) <= 1

====
